---- MODULE Spec2Model ----
(***************************************************************************)
(* Model of src/src/main.rs: the YouTube transcript downloader.            *)
(*                                                                         *)
(* Strings are TLA+ strings (Len, SubSeq and \o act on their characters):  *)
(* the printable ASCII characters but the grave accent, and \t \n \f \r.   *)
(* An f64 is held as the shortest decimal that is read back as it (the one *)
(* Display prints), or as an infinity or NaN; literals, sums, products and *)
(* quotients are rounded to the nearest f64.                               *)
(* An Option is None or Some(v); a Result is Err(e) or Ok(v).              *)
(***************************************************************************)
EXTENDS Integers, Sequences, FiniteSets, TLC

VARIABLES
    pc,                \* position of main / get_transcript
    fs,                \* the files of the working directory: name -> Option<String>
    written,           \* names of the files this run has written (fs::write calls)
    video_id,          \* config.video_id
    page_status,       \* HTTP status of the page response
    html,              \* body of the page response
    json_str,          \* extract_json(&html)
    parsed,            \* serde_json::from_str(json_str)
    base_url,          \* baseUrl of the first caption track
    feed_status,       \* HTTP status of the caption-feed response
    transcript_xml,    \* body of the caption-feed response
    transcript,        \* Vec<TranscriptItem> built by get_transcript
    error,             \* the Err get_transcript ended with ("" when none)
    build,             \* "debug" (overflow checks on) or "release" (wrapping)
    lpc,               \* position inside normalize_timestamps' bucketing loop
    entries,           \* normalize_timestamps: the sorted entries
    current_timestamp, \* normalize_timestamps: the i32 bucket counter
    normalized,        \* normalize_timestamps: the output built so far
    wraps              \* how often current_timestamp has wrapped around

vars == <<pc, fs, written, video_id, page_status, html, json_str, parsed,
          base_url, feed_status, transcript_xml, transcript, error,
          build, lpc, entries, current_timestamp, normalized, wraps>>

pipelineVars == <<pc, fs, written, video_id, page_status, html, json_str, parsed,
                  base_url, feed_status, transcript_xml, transcript, error>>

loopVars == <<build, lpc, entries, current_timestamp, normalized, wraps>>

(***************************************************************************)
(* Option / Result                                                         *)
(***************************************************************************)
None == [some |-> FALSE]
Some(v) == [some |-> TRUE, val |-> v]
Err(e) == [ok |-> FALSE, err |-> e]
Ok(v) == [ok |-> TRUE, val |-> v]

Min(S) == CHOOSE x \in S : \A y \in S : x <= y
Max(S) == CHOOSE x \in S : \A y \in S : x >= y
\* the element of a set of one.  { F(v) : v \in {e} } works e out before F,
\* which keeps the evaluation of long chains of steps shallow.
Only(S) == CHOOSE x \in S : TRUE

(***************************************************************************)
(* Program constants                                                       *)
(***************************************************************************)
interval == 6
I32Max == 2147483647
I32Min == -I32Max - 1

start_marker == "ytInitialPlayerResponse = "
end_marker == ";</script>"

(***************************************************************************)
(* str primitives                                                          *)
(***************************************************************************)
\* the character at position i, "" outside the string
CharAt(s, i) == IF 1 <= i /\ i <= Len(s) THEN SubSeq(s, i, i) ELSE ""
Take(s, n) == SubSeq(s, 1, n)
Drop(s, n) == SubSeq(s, n + 1, Len(s))

\* s[i..] starts with pat
StartsWithAt(s, pat, i) ==
    /\ i + Len(pat) - 1 <= Len(s)
    /\ SubSeq(s, i, i + Len(pat) - 1) = pat

\* str::find: the 1-based index of the first occurrence of pat, 0 when absent
Find(s, pat) ==
    LET hits == {i \in 1..(Len(s) - Len(pat) + 1) : StartsWithAt(s, pat, i)}
    IN IF hits = {} THEN 0 ELSE Min(hits)

\* char::is_whitespace, on the characters a TLA+ string can hold
IsWhitespace(c) == c \in {" ", "\t", "\n", "\f", "\r"}

\* str::trim_start, str::trim_end, str::trim
TrimStart(s) ==
    LET keep == {k \in 1..Len(s) : ~IsWhitespace(CharAt(s, k))}
    IN IF keep = {} THEN "" ELSE Drop(s, Min(keep) - 1)

TrimEnd(s) ==
    LET keep == {k \in 1..Len(s) : ~IsWhitespace(CharAt(s, k))}
    IN IF keep = {} THEN "" ELSE Take(s, Max(keep))

Trim(s) == TrimEnd(TrimStart(s))

\* a line of str::lines loses the carriage return before its line break
StripCr(s) ==
    IF s # "" /\ CharAt(s, Len(s)) = "\r" THEN Take(s, Len(s) - 1) ELSE s

\* str::lines: split at "\n"; a final empty piece is no line
RECURSIVE Lines(_)
Lines(s) ==
    IF s = "" THEN << >>
    ELSE LET nl == Find(s, "\n")
         IN IF nl = 0 THEN <<s>>
            ELSE <<StripCr(Take(s, nl - 1))>> \o Lines(Drop(s, nl))

\* [String]::join
RECURSIVE Join(_, _)
Join(strs, sep) ==
    IF strs = << >> THEN ""
    ELSE IF Len(strs) = 1 THEN strs[1]
    ELSE strs[1] \o sep \o Join(Tail(strs), sep)

(***************************************************************************)
(* Numbers: parsing and formatting                                         *)
(***************************************************************************)
Digits == "0123456789"
IsDigit(c) == \E i \in 1..10 : CharAt(Digits, i) = c
DigitValues ==
    [c \in {CharAt(Digits, i) : i \in 1..10} |->
        (CHOOSE i \in 1..10 : CharAt(Digits, i) = c) - 1]
DigitVal(c) == DigitValues[c]
DigitChar(d) == CharAt(Digits, d + 1)

\* the length of the run of digits that begins at position i
DigitRun(s, i) ==
    LET stop == {j \in i..Len(s) : ~IsDigit(CharAt(s, j))}
    IN IF i > Len(s) THEN 0
       ELSE IF stop = {} THEN Len(s) - i + 1 ELSE Min(stop) - i

\* str::eq_ignore_ascii_case with a word given in lower and in upper case
EqIgnoreCase(s, lower, upper) ==
    /\ Len(s) = Len(lower)
    /\ \A k \in 1..Len(s) : CharAt(s, k) \in {CharAt(lower, k), CharAt(upper, k)}

RECURSIVE StrToNat(_)
StrToNat(s) ==
    IF s = "" THEN 0
    ELSE StrToNat(Take(s, Len(s) - 1)) * 10 + DigitVal(CharAt(s, Len(s)))

RECURSIVE NatToStr(_)
NatToStr(n) ==
    IF n < 10 THEN DigitChar(n)
    ELSE NatToStr(n \div 10) \o DigitChar(n % 10)

\* Display of an integer ("{}")
IntToStr(n) == IF n < 0 THEN "-" \o NatToStr(-n) ELSE NatToStr(n)

\* "{:02}" of an i32: sign-aware zero padding to width 2
Pad2(n) == IF 0 <= n /\ n < 10 THEN "0" \o NatToStr(n) ELSE IntToStr(n)

\* Rust's / and % on integers truncate toward zero (b > 0): the quotient
\* is one above the floor when a is negative and b does not divide it
TruncDiv(a, b) == (a \div b) + (IF a < 0 /\ a % b # 0 THEN 1 ELSE 0)
TruncRem(a, b) == a - b * TruncDiv(a, b)

(***************************************************************************)
(* Digit strings as natural numbers of any size (TLC's integers are        *)
(* 32-bit, an f64 reaches far beyond)                                      *)
(***************************************************************************)
\* n zeros, built by doubling
RECURSIVE Zeros(_)
Zeros(n) ==
    IF n <= 0 THEN ""
    ELSE IF n = 1 THEN "0"
    ELSE Zeros(n \div 2) \o Zeros(n - (n \div 2))

\* the number of zeros at the front and at the end of s, found by halving
RECURSIVE ZerosInFront(_)
ZerosInFront(s) ==
    IF CharAt(s, 1) # "0" THEN 0
    ELSE IF Len(s) = 1 THEN 1
    ELSE IF Take(s, Len(s) \div 2) = Zeros(Len(s) \div 2)
    THEN (Len(s) \div 2) + ZerosInFront(Drop(s, Len(s) \div 2))
    ELSE ZerosInFront(Take(s, Len(s) \div 2))

RECURSIVE ZerosAtEnd(_)
ZerosAtEnd(s) ==
    IF CharAt(s, Len(s)) # "0" THEN 0
    ELSE IF Len(s) = 1 THEN 1
    ELSE IF Drop(s, Len(s) \div 2) = Zeros(Len(s) - (Len(s) \div 2))
    THEN Len(s) - (Len(s) \div 2) + ZerosAtEnd(Take(s, Len(s) \div 2))
    ELSE ZerosAtEnd(Drop(s, Len(s) \div 2))

DropFront(s, n) == IF n = Len(s) THEN "0" ELSE Drop(s, n)
NoLeadingZeros(s) == DropFront(s, ZerosInFront(s))
NoTrailingZeros(s) == Take(s, Len(s) - ZerosAtEnd(s))

PadLeft(s, n) == Zeros(n - Len(s)) \o s
PadRight(s, n) == s \o Zeros(n - Len(s))

\* -1, 0 or 1: the order of two digit strings of equal length, found at
\* their first difference
RECURSIVE DigitsCmp(_, _)
DigitsCmp(a, b) ==
    IF a = b THEN 0
    ELSE IF Len(a) = 1 THEN (IF DigitVal(a) < DigitVal(b) THEN -1 ELSE 1)
    ELSE IF Take(a, Len(a) \div 2) = Take(b, Len(a) \div 2)
    THEN DigitsCmp(Drop(a, Len(a) \div 2), Drop(b, Len(a) \div 2))
    ELSE DigitsCmp(Take(a, Len(a) \div 2), Take(b, Len(a) \div 2))

\* the order of two numbers without leading zeros
NatCmp(a, b) ==
    IF Len(a) # Len(b) THEN (IF Len(a) < Len(b) THEN -1 ELSE 1)
    ELSE DigitsCmp(a, b)

\* The columns of n * a + sg * b (b as long as a; sg 1, 0 or -1) from the
\* right: d the digits, c the carry out of the leftmost column (-1: a
\* borrow).  The strings are halved and the right half lo is worked out
\* before the left one, so that long numbers need no deep recursion.
RECURSIVE Columns(_, _, _, _, _)

ColumnOf(v) == [d |-> DigitChar(v % 10), c |-> v \div 10]

ColumnsJoin(hi, lo) == [d |-> hi.d \o lo.d, c |-> hi.c]

ColumnsLeft(n, a, sg, b, lo) ==
    IF lo.c >= -1
    THEN ColumnsJoin(Columns(n, Take(a, Len(a) \div 2),
                             sg, Take(b, Len(a) \div 2), lo.c), lo)
    ELSE lo

Columns(n, a, sg, b, c) ==
    IF a = "" THEN [d |-> "", c |-> c]
    ELSE IF Len(a) = 1
    THEN ColumnOf(n * DigitVal(a) + (IF sg = 0 THEN 0 ELSE sg * DigitVal(b)) + c)
    ELSE ColumnsLeft(n, a, sg, b,
             Columns(n, Drop(a, Len(a) \div 2), sg, Drop(b, Len(a) \div 2), c))

\* the digits of the columns with the carry in front
WithCarry(cols) == (IF cols.c = 0 THEN "" ELSE NatToStr(cols.c)) \o cols.d

\* a + b (sg 1), or a - b for a >= b (sg -1)
NatSumAt(sg, a, b, n) ==
    NoLeadingZeros(WithCarry(Columns(1, PadLeft(a, n), sg, PadLeft(b, n), 0)))
NatSum(sg, a, b) == NatSumAt(sg, a, b, Max({Len(a), Len(b)}))

\* a * n for a factor n below 2^31 / 10
DigitsTimes(a, n) == NoLeadingZeros(WithCarry(Columns(n, a, 0, a, 0)))

\* a * m for a number m of at most 16 digits: its upper and its lower 8
NatTimesPadded(a, m) ==
    NatSum(1, DigitsTimes(a, StrToNat(Take(m, 8))) \o Zeros(8),
              DigitsTimes(a, StrToNat(Drop(m, 8))))
NatTimes(a, m) == Only({NatTimesPadded(a, p) : p \in {PadLeft(m, 16)}})

\* a * base^k, chunk factors at a time: half of the chunks, then the rest
RECURSIVE TimesPow(_, _, _, _)

TimesPowFrom(a, base, chunk, k, k1) ==
    Only({TimesPow(h, base, chunk, k - k1) : h \in {TimesPow(a, base, chunk, k1)}})

TimesPow(a, base, chunk, k) ==
    IF k <= chunk THEN DigitsTimes(a, base ^ k)
    ELSE TimesPowFrom(a, base, chunk, k, chunk * (((k \div chunk) + 1) \div 2))

\* a * 2^e counted in units of 10^-s, s = -e for e < 0 and s = 0 otherwise;
\* 2^27 and 5^11 are the largest powers that DigitsTimes takes
ScaleBin(a, e) ==
    IF e >= 0 THEN TimesPow(a, 2, 27, e) ELSE TimesPow(a, 5, 11, -e)

\* long division of a by n (below 2^31 / 10), from the left with the
\* remainder r carried in: q the digits of the quotient, r the remainder.
\* The left half hi is worked out before the right one.
RECURSIVE DivMod(_, _, _)

DivModJoin(hi, lo) == [q |-> hi.q \o lo.q, r |-> lo.r]

DivModRight(a, n, hi) ==
    IF hi.r >= 0
    THEN DivModJoin(hi, DivMod(Drop(a, Len(a) \div 2), n, hi.r))
    ELSE hi

DivMod(a, n, r) ==
    IF a = "" THEN [q |-> "", r |-> r]
    ELSE IF Len(a) = 1
    THEN [q |-> DigitChar((r * 10 + DigitVal(a)) \div n),
          r |-> (r * 10 + DigitVal(a)) % n]
    ELSE DivModRight(a, n, DivMod(Take(a, Len(a) \div 2), n, r))

(***************************************************************************)
(* f64.  A finite value is held as the decimal that Display prints for it: *)
(* sign, ip "." fp, the shortest digits that are read back as the same     *)
(* f64; ip without leading zeros ("0" for none), fp without trailing       *)
(* zeros; the sign is kept on zero (-0.0).  Infinite values and NaN are    *)
(* kinds of their own.  A value is m * 2^e in binary, m below 2^53 and e   *)
(* from -1074 to 971; every result is rounded to the nearest such value,   *)
(* a tie to the even m.                                                    *)
(***************************************************************************)
Inf(neg) == [kind |-> "inf", neg |-> neg, ip |-> "", fp |-> ""]
NaN == [kind |-> "nan", neg |-> FALSE, ip |-> "", fp |-> ""]

\* the decimal of the digits d with s of them behind the point
PlacedAt(neg, d, s) ==
    [kind |-> "num", neg |-> neg,
     ip |-> NoLeadingZeros(Take(d, Len(d) - s)),
     fp |-> NoTrailingZeros(Drop(d, Len(d) - s))]
Placed(neg, digits, s) == PlacedAt(neg, PadLeft(digits, s + 1), s)

\* f64::MANTISSA_DIGITS, and the exponents of the least and the greatest
\* unit in the last place
MantissaBits == 53
MinExp == -1074
MaxExp == 971
\* 2^52, the least m of a normal value, and 2^53
HiddenBit == "4503599627370496"
MantissaEnd == "9007199254740992"
\* f64::DIGITS: a decimal of so many digits is the shortest one for the f64
\* nearest to it; 17 digits tell any two f64 apart
F64Digits == 15
MaxShortest == 17

Odd(a) == CharAt(a, Len(a)) \in {"1", "3", "5", "7", "9"}

\* a bound below the binary logarithm of a value from 10^q / 64 to
\* 10^(q + 1), less than 12 under it: log2(10) lies between 3.321 and 3.322
Log2Below(q) == ((q * (IF q >= 0 THEN 3321 ELSE 3322)) \div 1000) - 6

\* m and e of the f64 nearest to d.q + (d.r + a rest) / 2^(h + 1) units 2^e:
\* up when the rest is above a half, or is a half and d.q odd
BinaryNearest(d, sticky, h, e) ==
    [m |-> IF d.r > 2 ^ h \/ (d.r = 2 ^ h /\ (sticky \/ Odd(d.q)))
           THEN NatSum(1, d.q, "1") ELSE NoLeadingZeros(d.q),
     e |-> e]

\* a mantissa that was rounded up to 2^53 is 2^52 of the next exponent
BinaryNormal(b) ==
    IF b.m = MantissaEnd THEN [m |-> HiddenBit, e |-> b.e + 1] ELSE b

\* T = floor(x * 2^sh) has h bits more than the 54 that hold m and the
\* bit behind it
BinaryEven(T, sticky, sh, h) ==
    Only({BinaryNormal(BinaryNearest(d, sticky, h, h + 1 - sh)) :
            d \in {DivMod(T, 2 ^ (h + 1), 0)}})

\* the powers of two that T is measured by
BitEnds == [j \in (MantissaBits + 1)..(MantissaBits + 17) |-> ScaleBin("1", j)]

BinaryBits(T, sticky, sh) ==
    Only({BinaryEven(T, sticky, sh, h) :
            h \in {Cardinality({j \in DOMAIN BitEnds : NatCmp(T, BitEnds[j]) >= 0})}})

BinaryQuot(d, sticky, sh) ==
    Only({BinaryBits(T, sticky \/ d.r # 0, sh) : T \in {NoLeadingZeros(d.q)}})

\* N / (den * 10^shift) = x * 2^sh
BinarySplit(N, shift, den, sh) ==
    Only({BinaryQuot(d, NoTrailingZeros(Drop(N, Len(N) - shift)) # "", sh) :
            d \in {DivMod(Take(N, Len(N) - shift), den, 0)}})

BinaryShift(D, s, den, sh) ==
    Only({BinarySplit(PadLeft(N, (IF sh >= 0 THEN s ELSE s - sh) + 1),
                      IF sh >= 0 THEN s ELSE s - sh, den, sh) :
            N \in {ScaleBin(D, sh)}})

\* [m, e] of the f64 nearest to x = D / (den * 10^s), D > 0 without leading
\* zeros and den below 64: x is scaled by 2^sh to a whole number of at
\* least 55 bits, or by 2^1075 when x lies among the subnormal values
Binary(D, s, den) ==
    Only({BinaryShift(D, s, den, sh) :
            sh \in {Min({MantissaBits + 2 - Log2Below(Len(D) - 1 - s), 1 - MinExp})}})

\* The shortest decimal read back as the f64 V (core::fmt::Display, flt2dec
\* format_shortest).  V, lo and hi are digit strings of one length in one
\* unit: the value and the ends of the interval of decimals that round to
\* it; incl: the ends belong to it (m is even).
InLow(x, lo, incl) == DigitsCmp(x, lo) > (IF incl THEN -1 ELSE 0)
InHigh(x, hi, incl) == DigitsCmp(x, hi) < (IF incl THEN 1 ELSE 0)

\* V cut behind its first k digits, and the next number of as many digits
CutDown(V, k) == PadRight(Take(V, Min({k, Len(V)})), Len(V))
CutUp(V, k) ==
    PadRight(PadLeft(NatSum(1, Take(V, Min({k, Len(V)})), "1"), Min({k, Len(V)})),
             Len(V))

\* the counts of digits from position p on that reach into the interval
Enough(V, lo, hi, incl, p) ==
    {n \in 1..MaxShortest : \/ InLow(CutDown(V, p + n - 1), lo, incl)
                            \/ InHigh(CutUp(V, p + n - 1), hi, incl)}

\* of the two cuts the one in the interval, the nearer one when both are,
\* the upper one when they are equally near
ShortestCut(V, lo, hi, incl, k) ==
    IF /\ InHigh(CutUp(V, k), hi, incl)
       /\ \/ ~InLow(CutDown(V, k), lo, incl)
          \/ CharAt(V, k + 1) \in {"5", "6", "7", "8", "9"}
    THEN CutUp(V, k) ELSE CutDown(V, k)

ShortestDigits(V, lo, hi, incl, p) ==
    Only({ShortestCut(V, lo, hi, incl, p + n - 1) :
            n \in {Min(Enough(V, lo, hi, incl, p))}})

ShortestPadded(neg, V, lo, hi, incl, s) ==
    Only({PlacedAt(neg, d, s) :
            d \in {ShortestDigits(V, lo, hi, incl, ZerosInFront(V) + 1)}})

\* V, lo and hi at one length, with a zero in front and s digits or more
ShortestWide(neg, V, lo, hi, incl, s, w) ==
    Only({ShortestPadded(neg, Vw, low, hiw, incl, s) :
            Vw \in {PadLeft(V, w)}, low \in {PadLeft(lo, w)}, hiw \in {PadLeft(hi, w)}})

\* V = 4m, below and above the halves of the gaps to the neighbours, all in
\* units of 2^(e - 2), which are 10^-s apart from a power of 5
ShortestOf(neg, V, lo, hi, incl, s) ==
    ShortestWide(neg, V, lo, hi, incl, s, Max({Len(hi), s}) + 1)

ShortestBetween(neg, V, below, above, incl, s) ==
    Only({ShortestOf(neg, V, lo, hi, incl, s) :
            lo \in {NatSum(-1, V, below)}, hi \in {NatSum(1, V, above)}})

\* u = 2^(e - 2); the neighbour below m = 2^52 is half as far as the one
\* above
ShortestUnits(neg, m, e, u, um) ==
    Only({ShortestBetween(neg, V, below, above, ~Odd(m), Max({0, 2 - e})) :
            V \in {DigitsTimes(um, 4)},
            below \in {DigitsTimes(u, IF m = HiddenBit THEN 1 ELSE 2)},
            above \in {DigitsTimes(u, 2)}})

ShortestScaled(neg, m, e, u) ==
    Only({ShortestUnits(neg, m, e, u, um) : um \in {NatTimes(u, m)}})

Shortest(neg, m, e) ==
    Only({ShortestScaled(neg, m, e, u) : u \in {ScaleBin("1", e - 2)}})

FromBinary(neg, b) ==
    IF b.m = "0" THEN Placed(neg, "0", 0)
    ELSE IF b.e > MaxExp THEN Inf(neg)
    ELSE Shortest(neg, b.m, b.e)

\* The f64 nearest to sign D / (den * 10^s), D without leading zeros: zero
\* and infinity included.  A decimal of at most 15 digits between 10^-290
\* and 10^290 is the shortest one of its f64.
Round(neg, D, s, den) ==
    IF D = "0" THEN Placed(neg, "0", 0)
    ELSE IF /\ den = 1
            /\ Len(NoTrailingZeros(D)) <= F64Digits
            /\ Len(D) - 1 - s \in -290..290
    THEN Placed(neg, D, s)
    ELSE Only({FromBinary(neg, b) : b \in {Binary(D, s, den)}})

\* the f64 nearest to the decimal ip "." fp
F64(neg, ip, fp) == Round(neg, NoLeadingZeros(ip \o fp), Len(fp), 1)

\* the decimal that the finite f64 x is exactly: m * 2^e written out
ExactBinary(neg, b) ==
    Only({Placed(neg, d, Max({0, -b.e})) : d \in {ScaleBin(b.m, b.e)}})
ExactOf(x) ==
    IF x.fp = "" /\ Len(x.ip) <= F64Digits THEN x
    ELSE Only({ExactBinary(x.neg, b) :
                 b \in {Binary(NoLeadingZeros(x.ip \o x.fp), Len(x.fp), 1)}})

IsNaN(x) == x.kind = "nan"
IsZero(x) == x.kind = "num" /\ x.ip = "0" /\ x.fp = ""
Sign(x) == IF IsZero(x) THEN 0 ELSE IF x.neg THEN -1 ELSE 1

\* the order of the magnitudes of two finite values
MagCmp(a, b) ==
    IF Len(a.ip) # Len(b.ip) THEN (IF Len(a.ip) < Len(b.ip) THEN -1 ELSE 1)
    ELSE IF DigitsCmp(a.ip, b.ip) # 0 THEN DigitsCmp(a.ip, b.ip)
    ELSE LET n == Max({Len(a.fp), Len(b.fp)})
         IN DigitsCmp(PadRight(a.fp, n), PadRight(b.fp, n))

AbsCmp(a, b) ==
    IF a.kind = "inf" THEN (IF b.kind = "inf" THEN 0 ELSE 1)
    ELSE IF b.kind = "inf" THEN -1
    ELSE MagCmp(a, b)

\* f64::partial_cmp: None when either value is NaN, else Some(-1 | 0 | 1)
partial_cmp(a, b) ==
    IF IsNaN(a) \/ IsNaN(b) THEN None
    ELSE IF Sign(a) # Sign(b) THEN Some(IF Sign(a) < Sign(b) THEN -1 ELSE 1)
    ELSE IF Sign(a) = 0 THEN Some(0)
    ELSE Some(Sign(a) * AbsCmp(a, b))

\* a < b, a <= b: false when either value is NaN
F64Lt(a, b) == partial_cmp(a, b) = Some(-1)
F64Le(a, b) == partial_cmp(a, b) \in {Some(-1), Some(0)}

\* the digits of a decimal with s fractional digits
Scaled(x, s) == x.ip \o PadRight(x.fp, s)

\* |a| + |b| (sg 1), or |a| - |b| for |a| >= |b| (sg -1), with the sign
\* neg, rounded
MagSumAt(sg, neg, a, b, s) ==
    Only({Round(neg, D, s, 1) : D \in {NatSum(sg, Scaled(a, s), Scaled(b, s))}})
MagSum(sg, neg, a, b) == MagSumAt(sg, neg, a, b, Max({Len(a.fp), Len(b.fp)}))

\* a + b for decimals of unlike sign, o the order of their magnitudes
Difference(a, b, o) ==
    IF o = 0 THEN Placed(FALSE, "0", 0)
    ELSE MagSum(-1, IF o > 0 THEN a.neg ELSE b.neg,
                IF o > 0 THEN a ELSE b, IF o > 0 THEN b ELSE a)

\* the f64 nearest to the sum of two decimals
ExactSum(a, b) ==
    IF a.neg = b.neg THEN MagSum(1, a.neg, a, b)
    ELSE Difference(a, b, MagCmp(a, b))

\* a + b
F64Add(a, b) ==
    IF IsNaN(a) \/ IsNaN(b) THEN NaN
    ELSE IF a.kind = "inf" /\ b.kind = "inf"
    THEN (IF a.neg = b.neg THEN a ELSE NaN)
    ELSE IF a.kind = "inf" THEN a
    ELSE IF b.kind = "inf" THEN b
    ELSE IF IsZero(a) # IsZero(b) THEN (IF IsZero(a) THEN b ELSE a)
    ELSE Only({ExactSum(ea, eb) : ea \in {ExactOf(a)}, eb \in {ExactOf(b)}})

\* the f64 nearest to 60 times a decimal
ExactTimes60(x) ==
    Only({Round(x.neg, D, Len(x.fp), 1) : D \in {DigitsTimes(x.ip \o x.fp, 60)}})

\* x * 60.0
F64Mul60(x) ==
    IF x.kind # "num" THEN x ELSE Only({ExactTimes60(e) : e \in {ExactOf(x)}})

\* min * 60.0 + sec
MinSec(min, sec) == Only({F64Add(p, sec) : p \in {F64Mul60(min)}})

\* the f64 nearest to a 60th of a decimal
ExactDiv60(x) == Round(x.neg, NoLeadingZeros(x.ip \o x.fp), Len(x.fp), 60)

\* x / 60.0
F64Div60(x) ==
    IF x.kind # "num" THEN x ELSE Only({ExactDiv60(e) : e \in {ExactOf(x)}})

\* x.floor(): a value with a fraction lies below 2^52
F64Floor(x) ==
    IF x.kind # "num" \/ x.fp = "" THEN x
    ELSE IF x.neg THEN Placed(TRUE, NatSum(1, x.ip, "1"), 0)
    ELSE Placed(FALSE, x.ip, 0)

\* (x / 60.0).floor().  For a decimal of at most 15 digits, 15 places from
\* the point at most, it is the floor of the exact quotient: rounding moves
\* the value and the quotient by a part in 2^52 together, and a quotient
\* that is not whole is at least a part in 10^15 from the whole numbers.
FloorDiv60(x) ==
    IF x.kind = "num" /\ Len(x.ip) + Len(x.fp) <= F64Digits
    THEN LET d == DivMod(x.ip, 60, 0)
         IN IF ~x.neg \/ (d.r = 0 /\ x.fp = "") THEN Placed(x.neg, d.q, 0)
            ELSE Placed(TRUE, NatSum(1, d.q, "1"), 0)
    ELSE Only({F64Floor(q) : q \in {F64Div60(x)}})

\* the floor of a decimal's remainder of the division by 60, which has the
\* sign of the decimal
ExactFloorRem60(x) ==
    Placed(x.neg, NatToStr(DivMod(x.ip, 60, 0).r
                           + (IF x.neg /\ x.fp # "" THEN 1 ELSE 0)), 0)

\* (x % 60.0).floor(): the remainder is exact; under 10^15 an f64 and its
\* shortest decimal have the same whole part
FloorRem60(x) ==
    IF x.kind # "num" THEN NaN
    ELSE Only({ExactFloorRem60(e) :
                 e \in {IF Len(x.ip) <= F64Digits THEN x ELSE ExactOf(x)}})

\* "{:02}" of a whole f64: Display prints no fraction, "-0" for -0.0, and the
\* zero padding counts the sign
F64Pad2(x) ==
    IF x.kind = "nan" THEN "NaN"
    ELSE IF x.kind = "inf" THEN (IF x.neg THEN "-inf" ELSE "inf")
    ELSE LET s == (IF x.neg THEN "-" ELSE "") \o x.ip
         IN IF Len(s) < 2 THEN "0" \o s ELSE s

\* `n as f64`
FromI32(n) ==
    Placed(n < 0, IF n = I32Min THEN "2147483648"
                  ELSE NatToStr(IF n < 0 THEN -n ELSE n), 0)

\* `x as i32`: truncation toward zero, saturating; NaN gives 0
AsI32(x) ==
    IF x.kind = "nan" THEN 0
    ELSE IF x.kind = "inf"
            \/ Len(x.ip) > Len(NatToStr(I32Max))
            \/ (Len(x.ip) = Len(NatToStr(I32Max)) /\ DigitsCmp(x.ip, NatToStr(I32Max)) > 0)
    THEN (IF x.neg THEN I32Min ELSE I32Max)
    ELSE IF x.neg THEN -StrToNat(x.ip) ELSE StrToNat(x.ip)

EmptyFloatMsg == "cannot parse float from empty string"
InvalidFloatMsg == "invalid float literal"

\* f64::MAX has 309 digits before the point, and a decimal under 10^-324
\* is less than half of the least positive f64
F64MaxDigits == 309
F64MinExp == -323

\* the f64 nearest to 0.sig * 10^pos, sig without zeros at its ends
DecimalOf(neg, sig, pos) ==
    IF pos > F64MaxDigits THEN Inf(neg)
    ELSE IF pos < F64MinExp THEN Placed(neg, "0", 0)
    ELSE Round(neg, sig \o Zeros(pos - Len(sig)), Max({0, Len(sig) - pos}), 1)

\* the value 0.sig * 10^pos: sig the digits of the literal from the first
\* non-zero one on, pos the place of the decimal point
Decimal(neg, sig, pos) ==
    IF sig = "0" THEN Placed(neg, "0", 0)
    ELSE DecimalOf(neg, NoTrailingZeros(sig), pos)

\* the exponent is summed up digit by digit while it is below 0x10000
ExpLimit == 65536

RECURSIVE ExpNum(_, _)
ExpNum(digits, e) ==
    IF digits = "" THEN e
    ELSE ExpNum(Drop(digits, 1),
                IF e < ExpLimit THEN 10 * e + DigitVal(CharAt(digits, 1)) ELSE e)

\* the value of the exponent digits; behind leading zeros the sixth digit
\* is the last one that can count
Exponent(expNeg, digits) ==
    (IF expNeg THEN -1 ELSE 1)
        * ExpNum(Take(NoLeadingZeros(digits), Min({6, Len(NoLeadingZeros(digits))})), 0)

\* the literal from position e on, behind the mantissa: nothing, or (e|E),
\* a sign or none at x - 1, and digits from x to the end
ParseExponent(neg, body, sig, pos, e, x) ==
    IF e <= Len(body) /\ ~(/\ CharAt(body, e) \in {"e", "E"}
                           /\ x <= Len(body)
                           /\ DigitRun(body, x) = Len(body) - x + 1)
    THEN Err(InvalidFloatMsg)
    ELSE Ok(Decimal(neg, sig,
                IF e > Len(body) THEN pos
                ELSE pos + Exponent(CharAt(body, e + 1) = "-",
                                    Drop(body, x - 1))))

\* the digits of the mantissa, n1 of them before the point; e the position
\* behind the mantissa
ParseDigits(neg, body, n1, digits, sig, e) ==
    IF digits = "" THEN Err(InvalidFloatMsg)
    ELSE ParseExponent(neg, body, sig, n1 - (Len(digits) - Len(sig)), e,
             IF CharAt(body, e + 1) \in {"-", "+"} THEN e + 2 ELSE e + 1)

\* the mantissa: n1 digits, then a point and n2 digits or nothing
ParseMantissa(neg, body, n1, n2, digits) ==
    ParseDigits(neg, body, n1, digits, NoLeadingZeros(digits),
        IF CharAt(body, n1 + 1) = "." THEN n1 + n2 + 2 ELSE n1 + 1)

\* the number behind the sign: n1 digits, a point or none, n2 digits
ParseNumberF64(neg, body, n1, n2) ==
    ParseMantissa(neg, body, n1, n2,
        Take(body, n1) \o SubSeq(body, n1 + 2, n1 + 1 + n2))

\* the literal behind its sign
ParseUnsigned(neg, body, n1) ==
    IF EqIgnoreCase(body, "inf", "INF") \/ EqIgnoreCase(body, "infinity", "INFINITY")
    THEN Ok(Inf(neg))
    ELSE IF EqIgnoreCase(body, "nan", "NAN") THEN Ok(NaN)
    ELSE ParseNumberF64(neg, body, n1,
             IF CharAt(body, n1 + 1) = "." THEN DigitRun(body, n1 + 2) ELSE 0)

\* the literal s with or without a sign
ParseSigned(s, signed) ==
    ParseUnsigned(CharAt(s, 1) = "-", IF signed THEN Drop(s, 1) ELSE s,
                  DigitRun(s, IF signed THEN 2 ELSE 1))

\* str::parse::<f64>: [+-] ( digits [. digits] [(e|E) [+-] digits]
\* | inf | infinity | nan ), with a digit before or behind the point and the
\* words in any case.  The value is the f64 nearest to the decimal written.
ParseF64(s) ==
    IF s = "" THEN Err(EmptyFloatMsg)
    ELSE ParseSigned(s, CharAt(s, 1) \in {"-", "+"})

\* i32 `a + b` (b > 0) as a release build performs it: two's complement wrap
WrapAdd(a, b) ==
    IF a > I32Max - b THEN I32Min + (b - 1 - (I32Max - a)) ELSE a + b

(***************************************************************************)
(* TranscriptItem                                                          *)
(***************************************************************************)
TranscriptItem(text, start, duration) ==
    [text |-> text, start |-> start, duration |-> duration]

\* TranscriptItem::format_time
format_time(item) ==
    LET start_mins == FloorDiv60(item.start)
        start_secs == FloorRem60(item.start)
    IN "[" \o F64Pad2(start_mins) \o ":" \o F64Pad2(start_secs) \o "]"

(***************************************************************************)
(* extract_json                                                            *)
(***************************************************************************)
\* extract_json with the end marker searched from the top of the page, not
\* behind the start marker (html.find in place of sub_str.find)
extract_json_from_top(h) ==
    LET start_idx == Find(h, start_marker)
        start_pos == start_idx + Len(start_marker)
        found     == Find(h, end_marker)
    IN IF start_idx = 0 THEN None
       ELSE IF found = 0 THEN Some(Drop(h, start_pos - 1))
       ELSE IF found < start_pos THEN Some("")
       ELSE Some(SubSeq(h, start_pos, found - 1))

extract_json(h) ==
    LET start_idx == Find(h, start_marker)
    IN IF start_idx = 0 THEN None
       ELSE LET sub_str == Drop(h, start_idx + Len(start_marker) - 1)
                found   == Find(sub_str, end_marker)
                end_pos == IF found = 0 THEN Len(sub_str) ELSE found - 1
            IN Some(Take(sub_str, end_pos))

(***************************************************************************)
(* process_timestamp_line and normalize_timestamps                         *)
(***************************************************************************)
TimestampEntry(min, sec, text) ==
    IF min.ok /\ sec.ok THEN Some([ts |-> MinSec(min.val, sec.val), text |-> text])
    ELSE None

\* timestamp_str.split_once(':') at the colon, then the two parses
SplitTimestamp(timestamp_str, colon, text) ==
    IF colon = 0 THEN None
    ELSE TimestampEntry(ParseF64(Take(timestamp_str, colon - 1)),
                        ParseF64(Drop(timestamp_str, colon)), text)

TimestampLine(line, timestamp_str) ==
    SplitTimestamp(timestamp_str, Find(timestamp_str, ":"),
                   Trim(Drop(line, Find(line, "]"))))

process_timestamp_line(line) ==
    IF Find(line, "]") = 0 \/ CharAt(line, 1) # "[" THEN None
    ELSE TimestampLine(line, SubSeq(line, 2, Find(line, "]") - 1))

\* content.lines().filter_map(process_timestamp_line).collect()
RECURSIVE FilterMapLines(_)
FilterMapped(e, rest) == IF e.some THEN <<e.val>> \o rest ELSE rest

FilterMapLines(ls) ==
    IF ls = << >> THEN << >>
    ELSE FilterMapped(process_timestamp_line(Head(ls)), FilterMapLines(Tail(ls)))

ParseEntries(content) == FilterMapLines(Lines(content))

\* one insertion of the stable sort: e goes behind every element not above it
InsertSorted(sorted, e) ==
    LET k == Cardinality({i \in 1..Len(sorted) : F64Le(sorted[i].ts, e.ts)})
    IN SubSeq(sorted, 1, k) \o <<e>> \o SubSeq(sorted, k + 1, Len(sorted))

\* normalize_timestamps without its sort: the entries stay in input order
SortEntriesLeftOut(es) == es

\* entries.sort_by(|a, b| a.0.partial_cmp(&b.0).unwrap()): stable, ascending
RECURSIVE SortEntries(_)
SortEntries(es) ==
    IF es = << >> THEN << >>
    ELSE InsertSorted(SortEntries(SubSeq(es, 1, Len(es) - 1)), es[Len(es)])

\* the unwrap of line 156 panics: a sort of two or more entries compares
\* every one of them, and partial_cmp is None on a NaN
SortPanics(es) == Len(es) >= 2 /\ \E k \in 1..Len(es) : IsNaN(es[k].ts)

\* entries.last().map(|e| e.0).unwrap_or(0.0) as i32
LastAsI32(es) == IF es = << >> THEN 0 ELSE AsI32(es[Len(es)].ts)

\* *ts >= start_time && *ts < end_time
InBucket(ts, start_time, end_time) == F64Le(start_time, ts) /\ F64Lt(ts, end_time)

\* the texts of the entries with start_time <= ts < end_time
RECURSIVE TextsIn(_, _, _)
TextsIn(es, start_time, end_time) ==
    IF es = << >> THEN << >>
    ELSE (IF InBucket(Head(es).ts, FromI32(start_time), FromI32(end_time))
          THEN <<Head(es).text>> ELSE << >>)
         \o TextsIn(Tail(es), start_time, end_time)

\* lines 163-168: those texts joined by " "
BucketText(es, start_time, end_time) == Join(TextsIn(es, start_time, end_time), " ")

\* format!("[{}:{:02}] {}\n", minutes, seconds, text)
FormatBucketLine(ts, text) ==
    "[" \o IntToStr(TruncDiv(ts, 60)) \o ":" \o Pad2(TruncRem(ts, 60)) \o "] "
        \o text \o "\n"

\* line 161: current_timestamp + interval leaves the i32 range
OverflowsAt(ts) == ts > I32Max - interval

\* the largest c <= t that the counter, stepping by interval from ts, can take
Aligned(t, ts) == t - (((t % interval) - (ts % interval)) % interval)

\* An iteration whose bucket text is empty changes nothing but the counter.
\* Where the counter stands after the iterations from ts on that find an
\* empty text: at the next bucket with text, at the first value past the
\* last entry, or at the value whose increment overflows.
NextStop(es, ts) ==
    LET floors   == UNION {{AsI32(es[k].ts),
                            IF AsI32(es[k].ts) > I32Min
                            THEN AsI32(es[k].ts) - 1 ELSE I32Min} : k \in 1..Len(es)}
        withText == {c \in {Aligned(t, ts) : t \in {u \in floors : u > ts}} :
                        /\ c > ts /\ ~OverflowsAt(c)
                        /\ BucketText(es, c, c + interval) # ""}
        top      == Aligned(I32Max, ts)
        past     == IF LastAsI32(es) < ts THEN {}
                    ELSE LET c == Aligned(LastAsI32(es), ts)
                         IN IF OverflowsAt(c) THEN {} ELSE {c + interval}
    IN Min(withText \cup {top} \cup {c \in past : c > ts})

\* the while loop of normalize_timestamps, run to its end, the iterations
\* with an empty text taken together; None when the addition
\* current_timestamp + interval overflows, for then the function returns
\* nothing: a debug build panics and a release build loops on.
RECURSIVE GroupIntervals(_, _, _)

\* lines 170-176 of one iteration with its bucket text
BucketDone(es, ts, out, text) ==
    IF text # ""
    THEN GroupIntervals(es, ts + interval, out \o FormatBucketLine(ts, text))
    ELSE GroupIntervals(es, NextStop(es, ts), out)

GroupIntervals(es, ts, out) ==
    IF ts > LastAsI32(es) THEN Some(out)
    ELSE IF OverflowsAt(ts) THEN None
    ELSE BucketDone(es, ts, out, BucketText(es, ts, ts + interval))

\* lines 156-179 on the collected entries; None when the function does not
\* return (panic in the sort, overflow)
NormalizeEntries(es) ==
    IF SortPanics(es) THEN None ELSE GroupIntervals(SortEntries(es), 0, "")

normalize_timestamps(content) == NormalizeEntries(ParseEntries(content))

\* the content save_transcript hands to normalize_timestamps
RECURSIVE FormatItems(_)
FormatItems(items) ==
    IF items = << >> THEN << >>
    ELSE <<format_time(Head(items)) \o " " \o Head(items).text>>
         \o FormatItems(Tail(items))

SaveContent(items) == Join(FormatItems(items), "\n")

(***************************************************************************)
(* serde_json::Value and serde_json::from_str (line 66).  The parser is    *)
(* serde_json's recursive descent over the bytes of the text; an error     *)
(* carries its code and the line and column serde_json reports.  A TLA+    *)
(* string holds no grave accent, no backspace and nothing beyond ASCII:    *)
(* the codes "expected `:`", "expected `,` or `]`" and "expected `,` or    *)
(* `}`" are written with ' for the accent, and an escape that stands for a *)
(* character a string cannot hold is kept as it is written.                *)
(***************************************************************************)
JNull == [t |-> "null", v |-> "null"]
JBool(b) == [t |-> "bool", v |-> b]
JNumber(n) == [t |-> "number", v |-> n]
JString(x) == [t |-> "string", v |-> x]
JWideString(x, w) == [t |-> "string", v |-> x, wide |-> w]
JArray(a) == [t |-> "array", v |-> a]
JObject(f) == [t |-> "object", v |-> f]
JWideObject(f, g) == [t |-> "object", v |-> f, wide |-> g]

\* a value parsed and the position behind it
JOk(v, pos) == [ok |-> TRUE, val |-> v, pos |-> pos]

\* Error::syntax(code, line, column) for the byte index idx: the line breaks
\* before idx count the line, the bytes behind the last of them the column
\* (code is the Display of the ErrorCode; where serde_json quotes a character
\* with grave accents, which a TLA+ string cannot hold, apostrophes stand)
JsonError(s, code, idx) ==
    LET breaks == {k \in 1..idx : CharAt(s, k) = "\n"}
        start_of_line == IF breaks = {} THEN 0 ELSE Max(breaks)
    IN Err(code \o " at line " \o NatToStr(1 + Cardinality(breaks))
                \o " column " \o NatToStr(idx - start_of_line))

\* Deserializer::peek_error with the next byte at position p (index p - 1)
PeekError(s, code, p) == JsonError(s, code, Min({Len(s), p}))

\* Deserializer::remaining_depth at the start
RecursionLimit == 128

\* Deserializer::parse_whitespace: the position of the next byte that is
\* no white space, Len(s) + 1 at the end of the text
SkipWhitespace(s, i) ==
    LET rest == {k \in i..Len(s) : CharAt(s, k) \notin {" ", "\n", "\t", "\r"}}
    IN IF rest = {} THEN Len(s) + 1 ELSE Min(rest)

\* Deserializer::parse_ident behind the first letter, which stood at i - 1
ParseIdent(s, i, ident, value) ==
    LET bad == {k \in 1..Len(ident) : CharAt(s, i + k - 1) # CharAt(ident, k)}
    IN IF bad = {} THEN JOk(value, i + Len(ident))
       ELSE IF i + Min(bad) - 1 > Len(s) THEN JsonError(s, "EOF while parsing a value", Len(s))
       ELSE JsonError(s, "expected ident", i + Min(bad) - 1)

\* the characters of code 32 to 95 and of code 97 to 126
AsciiLow == " !\"#$%&'()*+,-./0123456789:;<=>?@ABCDEFGHIJKLMNOPQRSTUVWXYZ[\\]^_"
AsciiHigh == "abcdefghijklmnopqrstuvwxyz{|}~"
\* the value of a hex digit, -1 for any other character
HexVal(c) == Max({Find("0123456789abcdef", c), Find("0123456789ABCDEF", c)}) - 1
IsHex(c) == c # "" /\ HexVal(c) >= 0

\* the value of the four hex digits h
HexEscape(h) ==
    ((HexVal(CharAt(h, 1)) * 16 + HexVal(CharAt(h, 2))) * 16
        + HexVal(CharAt(h, 3))) * 16 + HexVal(CharAt(h, 4))

\* the character of code n; escape when a string cannot hold it
CharOf(n, escape) ==
    IF n >= 32 /\ n <= 95 THEN CharAt(AsciiLow, n - 31)
    ELSE IF n >= 97 /\ n <= 126 THEN CharAt(AsciiHigh, n - 96)
    ELSE IF n = 9 THEN "\t"
    ELSE IF n = 10 THEN "\n"
    ELSE IF n = 12 THEN "\f"
    ELSE IF n = 13 THEN "\r"
    ELSE escape

\* UTF-16 surrogates: a leading one is followed by the escape of a trailing
\* one, the two standing for one character beyond U+FFFF
IsLeadingSurrogate(n) == n >= 55296 /\ n <= 56319
IsTrailingSurrogate(n) == n >= 56320 /\ n <= 57343

LoneSurrogateMsg == "lone leading surrogate in hex escape"
HexEndMsg == "unexpected end of hex escape"

\* A String that is being built.  text holds its characters, with WideMark
\* in the place of every character that a string of the model cannot hold,
\* and wide lists these places in ascending order, each with the code of
\* its character: two texts are equal exactly when the Strings are.
WideMark == "?"
EmptyText == [text |-> "", wide |-> << >>]

\* String::push_str of characters the model holds
PushStr(acc, str) == [text |-> acc.text \o str, wide |-> acc.wide]

\* String::push of the character of code n
PushChar(acc, n) ==
    IF CharOf(n, "") # "" THEN PushStr(acc, CharOf(n, ""))
    ELSE [text |-> acc.text \o WideMark,
          wide |-> Append(acc.wide, [at |-> Len(acc.text) + 1, code |-> n])]

\* the code of the character that the surrogates n1 and n2 stand for
SurrogatePair(n1, n2) == 65536 + (n1 - 55296) * 1024 + (n2 - 56320)

RECURSIVE ParseStr(_, _, _)

\* parse_str goes on at position k with the character of code n pushed
ParseStrPushed(s, k, acc, n) ==
    Only({ParseStr(s, k, a) : a \in {PushChar(acc, n)}})

\* parse_unicode_escape behind the escape of the leading surrogate n1, which
\* ends at position j - 1: the escape of a trailing surrogate must follow
ParseSurrogate(s, j, run, n1) ==
    LET h == SubSeq(s, j + 2, Min({Len(s), j + 5}))
    IN IF CharAt(s, j) = "" THEN JsonError(s, "EOF while parsing a string", Len(s))
       ELSE IF CharAt(s, j) # "\\" THEN JsonError(s, HexEndMsg, j)
       ELSE IF CharAt(s, j + 1) = "" THEN JsonError(s, "EOF while parsing a string", Len(s))
       ELSE IF CharAt(s, j + 1) # "u" THEN JsonError(s, HexEndMsg, j + 1)
       ELSE IF Len(h) < 4 THEN JsonError(s, "EOF while parsing a string", Len(s))
       ELSE IF \E k \in 1..4 : ~IsHex(CharAt(h, k)) THEN JsonError(s, "invalid escape", j + 5)
       ELSE IF ~IsTrailingSurrogate(HexEscape(h)) THEN JsonError(s, LoneSurrogateMsg, j + 5)
       ELSE ParseStrPushed(s, j + 6, run, SurrogatePair(n1, HexEscape(h)))

\* parse_unicode_escape with the four hex digits h, which end at position
\* j - 1
ParseUnicode(s, j, run, h) ==
    IF IsTrailingSurrogate(HexEscape(h)) THEN JsonError(s, LoneSurrogateMsg, j - 1)
    ELSE IF IsLeadingSurrogate(HexEscape(h)) THEN ParseSurrogate(s, j, run, HexEscape(h))
    ELSE ParseStrPushed(s, j, run, HexEscape(h))

\* SliceRead::parse_str behind the opening quote: acc is the text so far, i
\* the position behind it; the bytes up to the next quote, backslash or
\* control character are taken as they are
ParseStr(s, i, acc) ==
    LET stops == {k \in i..Len(s) : CharAt(s, k) \in {"\"", "\\", "\t", "\n", "\f", "\r"}}
        j   == IF stops = {} THEN Len(s) + 1 ELSE Min(stops)
        run == PushStr(acc, SubSeq(s, i, j - 1))
        c   == CharAt(s, j)
        e   == CharAt(s, j + 1)
        h   == SubSeq(s, j + 2, Min({Len(s), j + 5}))
    IN IF c = "" THEN JsonError(s, "EOF while parsing a string", Len(s))
       ELSE IF c = "\"" THEN JOk(run, j + 1)
       ELSE IF c # "\\"
       THEN JsonError(s, "control character (\\u0000-\\u001F) found while parsing a string", j)
       ELSE IF e = "" THEN JsonError(s, "EOF while parsing a string", Len(s))
       ELSE IF e = "\"" THEN ParseStrPushed(s, j + 2, run, 34)
       ELSE IF e = "\\" THEN ParseStrPushed(s, j + 2, run, 92)
       ELSE IF e = "/" THEN ParseStrPushed(s, j + 2, run, 47)
       ELSE IF e = "b" THEN ParseStrPushed(s, j + 2, run, 8)
       ELSE IF e = "f" THEN ParseStrPushed(s, j + 2, run, 12)
       ELSE IF e = "n" THEN ParseStrPushed(s, j + 2, run, 10)
       ELSE IF e = "r" THEN ParseStrPushed(s, j + 2, run, 13)
       ELSE IF e = "t" THEN ParseStrPushed(s, j + 2, run, 9)
       ELSE IF e # "u" THEN JsonError(s, "invalid escape", j + 1)
       ELSE IF Len(h) < 4 THEN JsonError(s, "EOF while parsing a string", Len(s))
       ELSE IF \E k \in 1..4 : ~IsHex(CharAt(h, k)) THEN JsonError(s, "invalid escape", j + 5)
       ELSE ParseUnicode(s, j + 6, run, h)

\* serde_json::Number: PosInt(u64), NegInt(i64), held by the digits of the
\* magnitude, and Float(f64)
PosInt(d) == [kind |-> "posint", ip |-> d]
NegInt(d) == [kind |-> "negint", ip |-> d]

U64Max == "18446744073709551615"
I64MinAbs == "9223372036854775808"

\* how often b goes into r, which is below 10 b, and what is left
RECURSIVE TimesIn(_, _, _)
TimesIn(r, b, k) ==
    IF NatCmp(r, b) < 0 THEN [q |-> k, r |-> r]
    ELSE TimesIn(NatSum(-1, r, b), b, k + 1)

\* long division of a by the number b from the left, acc the quotient and
\* the remainder of the digits before a
RECURSIVE LongDivMod(_, _, _)
LongDivMod(a, b, acc) ==
    IF a = "" THEN acc
    ELSE Only({LongDivMod(Drop(a, 1), b, [q |-> acc.q \o DigitChar(t.q), r |-> t.r]) :
                 t \in {TimesIn(NoLeadingZeros(acc.r \o Take(a, 1)), b, 0)}})

\* N * 2^sh / den, or N / (den * 2^-sh), as quotient and remainder
RatioQuot(N, den, sh) ==
    IF sh >= 0 THEN LongDivMod(ScaleBin(N, sh), den, [q |-> "", r |-> "0"])
    ELSE LongDivMod(N, ScaleBin(den, -sh), [q |-> "", r |-> "0"])

RatioShifted(N, den, e, sh) ==
    Only({BinaryBits(NoLeadingZeros(d.q), d.r # "0", sh - e) :
            d \in {RatioQuot(N, den, sh)}})

\* [m, e] of the f64 nearest to (N / den) * 2^e, N and den without leading
\* zeros: N / den lies between 10^q and 10^(q + 2) for q = Len(N) - 1 -
\* Len(den) and is scaled by 2^sh to a whole number of at least 55 bits, or
\* less where the value lies among the subnormal ones
RatioBinary(N, den, e) ==
    IF N = "0" THEN [m |-> "0", e |-> 0]
    ELSE Only({RatioShifted(N, den, e, sh) :
                 sh \in {Min({MantissaBits + 2 - Log2Below(Len(N) - 1 - Len(den)),
                              1 - MinExp + e})}})

\* a * b and a / b of two f64 given as [m, e]
F64Times(a, b) ==
    Only({RatioBinary(N, "1", a.e + b.e) : N \in {NatTimes(b.m, a.m)}})
F64Over(a, b) == RatioBinary(a.m, b.m, a.e - b.e)

\* the table POW10 of 1e0 to 1e308
Pow10Max == 308
Pow10(k) == Binary("1" \o Zeros(k), 0, 1)

NumberOutOfRange(s, idx) == JsonError(s, "number out of range", idx)

\* a float that was parsed, the text ending before position end
FloatValue(positive, f, end) == JOk(JNumber(FromBinary(~positive, f)), end)

\* Deserializer::f64_from_parts from the loop on: f is the significand as
\* f64, or what the divisions by 1e308 have made of it
RECURSIVE FromParts(_, _, _, _, _)

FromPartsTimes(s, end, positive, p) ==
    IF p.m # "0" /\ p.e > MaxExp THEN NumberOutOfRange(s, end - 1)
    ELSE FloatValue(positive, p, end)

FromParts(s, end, positive, f, exponent) ==
    IF exponent >= 0 /\ exponent <= Pow10Max
    THEN Only({FromPartsTimes(s, end, positive, p) :
                 p \in {F64Times(f, Pow10(exponent))}})
    ELSE IF exponent < 0 /\ exponent >= -Pow10Max
    THEN Only({FloatValue(positive, q, end) : q \in {F64Over(f, Pow10(-exponent))}})
    ELSE IF f.m = "0" THEN FloatValue(positive, f, end)
    ELSE IF exponent >= 0 THEN NumberOutOfRange(s, end - 1)
    ELSE Only({FromParts(s, end, positive, q, exponent + Pow10Max) :
                 q \in {F64Over(f, Pow10(Pow10Max))}})

\* Deserializer::f64_from_parts: significand * 10^exponent in f64
\* arithmetic, the text ending before position end
f64_from_parts(s, end, positive, significand, exponent) ==
    Only({FromParts(s, end, positive, f, exponent) :
            f \in {RatioBinary(significand, "1", 0)}})

\* The loops of parse_integer and parse_decimal: digits are taken into the
\* u64 significand sig until the next one would pass u64::MAX.  rest are
\* the digits of sig and digits from the first that is no zero.
\* sig: the significand reached, n: the digits taken.
TakenOf(sig, lead, rest, keep) ==
    [sig |-> IF keep = 0 THEN "0" ELSE Take(rest, keep),
     n   |-> lead + keep - Len(sig)]

TakenFrom(sig, lead, rest) ==
    TakenOf(sig, lead, rest,
            IF Len(rest) < Len(U64Max) THEN Len(rest)
            ELSE IF DigitsCmp(Take(rest, Len(U64Max)), U64Max) <= 0
            THEN Len(U64Max) ELSE Len(U64Max) - 1)

TakeDigits(sig, digits) ==
    Only({TakenFrom(sig, lead, Drop(sig \o digits, lead)) :
            lead \in {IF sig = "0" THEN 1 + ZerosInFront(digits) ELSE 0}})

\* i32 saturating_add
SaturatingAdd(a, b) ==
    IF b > 0 /\ a > I32Max - b THEN I32Max
    ELSE IF b < 0 /\ a < I32Min - b THEN I32Min
    ELSE a + b

\* the digit of the exponent digits with which exp * 10 + digit passes
\* i32::MAX, 0 when there is none; rest: the digits from the first that is
\* no zero
ExpOverflowFrom(lead, rest) ==
    IF Len(rest) >= 10 /\ DigitsCmp(Take(rest, 10), NatToStr(I32Max)) > 0 THEN lead + 10
    ELSE IF Len(rest) >= 11 THEN lead + 11
    ELSE 0

ExpOverflowAt(digits) ==
    ExpOverflowFrom(ZerosInFront(digits), Drop(digits, ZerosInFront(digits)))

\* Deserializer::parse_exponent_overflow, the digit that passed i32::MAX
\* standing at position at: an error instead of an infinity, or a zero
parse_exponent_overflow(s, positive, zero_significand, positive_exp, at, end) ==
    IF ~zero_significand /\ positive_exp THEN NumberOutOfRange(s, at)
    ELSE FloatValue(positive, [m |-> "0", e |-> 0], end)

\* parse_exponent with the digits of the exponent at d, n of them
ExponentDigits(s, positive, significand, starting_exp, positive_exp, d, n, over) ==
    IF over > 0
    THEN parse_exponent_overflow(s, positive, significand = "0", positive_exp,
                                 d + over - 1, d + n)
    ELSE f64_from_parts(s, d + n, positive, significand,
             SaturatingAdd(starting_exp,
                           IF positive_exp THEN StrToNat(SubSeq(s, d, d + n - 1))
                           ELSE -StrToNat(SubSeq(s, d, d + n - 1))))

\* parse_exponent behind the sign, the first digit expected at d
ExponentAt(s, positive, significand, starting_exp, positive_exp, d) ==
    IF CharAt(s, d) = "" THEN JsonError(s, "EOF while parsing a value", Len(s))
    ELSE IF ~IsDigit(CharAt(s, d)) THEN JsonError(s, "invalid number", d)
    ELSE ExponentDigits(s, positive, significand, starting_exp, positive_exp,
                        d, DigitRun(s, d),
                        ExpOverflowAt(SubSeq(s, d, d + DigitRun(s, d) - 1)))

\* Deserializer::parse_exponent with the e at position k
parse_exponent(s, positive, significand, starting_exp, k) ==
    ExponentAt(s, positive, significand, starting_exp, CharAt(s, k + 1) # "-",
               IF CharAt(s, k + 1) \in {"+", "-"} THEN k + 2 ELSE k + 1)

\* the number behind its fraction, which ends before k
AfterFraction(s, positive, significand, exponent, k) ==
    IF CharAt(s, k) \in {"e", "E"}
    THEN parse_exponent(s, positive, significand, exponent, k)
    ELSE f64_from_parts(s, k, positive, significand, exponent)

\* Deserializer::parse_decimal with the point at position j and n digits
\* behind it, with parse_decimal_overflow: the digits that the significand
\* cannot take are passed over
parse_decimal(s, positive, significand, exponent_before, j, n) ==
    IF n = 0
    THEN PeekError(s, IF j + 1 <= Len(s) THEN "invalid number"
                      ELSE "EOF while parsing a value", j + 1)
    ELSE Only({AfterFraction(s, positive, t.sig, exponent_before - t.n, j + 1 + n) :
                 t \in {TakeDigits(significand, SubSeq(s, j + 1, j + n))}})

\* the value of a whole number: a negative one that no i64 holds, and -0,
\* is a float
IntegerValue(positive, significand, end) ==
    IF positive THEN JOk(JNumber(PosInt(significand)), end)
    ELSE IF significand # "0" /\ NatCmp(significand, I64MinAbs) <= 0
    THEN JOk(JNumber(NegInt(significand)), end)
    ELSE FloatValue(FALSE, RatioBinary(significand, "1", 0), end)

\* Deserializer::parse_number at position j, behind the digits of the
\* significand
parse_number(s, positive, significand, j) ==
    IF CharAt(s, j) = "."
    THEN parse_decimal(s, positive, significand, 0, j, DigitRun(s, j + 1))
    ELSE IF CharAt(s, j) \in {"e", "E"}
    THEN parse_exponent(s, positive, significand, 0, j)
    ELSE IntegerValue(positive, significand, j)

\* Deserializer::parse_long_integer: the digits that the significand could
\* not take, exponent of them, end before position j
parse_long_integer(s, positive, significand, exponent, j) ==
    IF CharAt(s, j) = "."
    THEN parse_decimal(s, positive, significand, exponent, j, DigitRun(s, j + 1))
    ELSE IF CharAt(s, j) \in {"e", "E"}
    THEN parse_exponent(s, positive, significand, exponent, j)
    ELSE f64_from_parts(s, j, positive, significand, exponent)

\* parse_integer with the digits taken: t.n of the n digits from position i
IntegerTaken(s, i, positive, n, t) ==
    IF t.n < n THEN parse_long_integer(s, positive, t.sig, n - t.n, i + n)
    ELSE parse_number(s, positive, t.sig, i + n)

IntegerDigits(s, i, positive, n) ==
    Only({IntegerTaken(s, i, positive, n, t) :
            t \in {TakeDigits("0", SubSeq(s, i, i + n - 1))}})

\* Deserializer::parse_integer: the number whose first digit is expected at
\* i; a zero in front stands alone
ParseNumber(s, i, positive) ==
    IF CharAt(s, i) = "" THEN JsonError(s, "EOF while parsing a value", Len(s))
    ELSE IF ~IsDigit(CharAt(s, i)) THEN JsonError(s, "invalid number", i)
    ELSE IF CharAt(s, i) = "0" /\ IsDigit(CharAt(s, i + 1))
    THEN PeekError(s, "invalid number", i + 1)
    ELSE IntegerDigits(s, i, positive,
                       IF CharAt(s, i) = "0" THEN 1 ELSE DigitRun(s, i))

RECURSIVE ParseValue(_, _, _)
RECURSIVE ParseSeq(_, _, _, _, _)
RECURSIVE ParseMap(_, _, _, _, _)

\* SeqAccess::next_element_seed has an element r: Vec::push
SeqPush(s, r, acc, depth) ==
    IF r.ok THEN ParseSeq(s, r.pos, FALSE, Append(acc, r.val), depth) ELSE r

\* The Map that is being built: v holds the entries whose key is a string
\* of the model, by the key, and wide the entries of every other key, by
\* the text of the key.
EmptyMap == [v |-> << >>, wide |-> << >>]

\* MapAccess::next_value_seed has a value r for key: Map::insert, a later
\* entry replacing an earlier one of the same key
MapInsert(s, key, r, acc, depth) ==
    IF ~r.ok THEN r
    ELSE IF key.wide = << >>
    THEN ParseMap(s, r.pos, FALSE,
                  [v |-> (key.text :> r.val) @@ acc.v, wide |-> acc.wide], depth)
    ELSE ParseMap(s, r.pos, FALSE,
                  [v |-> acc.v, wide |-> (key :> r.val) @@ acc.wide], depth)

\* Deserializer::parse_object_colon behind the key k, then the value
MapValue(s, k, acc, depth) ==
    IF ~k.ok THEN k
    ELSE LET p == SkipWhitespace(s, k.pos)
             c == CharAt(s, p)
         IN IF c = ":" THEN MapInsert(s, k.val, ParseValue(s, p + 1, depth), acc, depth)
            ELSE IF c = "" THEN PeekError(s, "EOF while parsing an object", p)
            ELSE PeekError(s, "expected ':'", p)

\* MapAccess::next_key_seed with the key expected at p
MapKey(s, p, acc, depth) ==
    LET c == CharAt(s, p)
    IN IF c = "\"" THEN MapValue(s, ParseStr(s, p + 1, EmptyText), acc, depth)
       ELSE IF c = "}" THEN PeekError(s, "trailing comma", p)
       ELSE IF c = "" THEN PeekError(s, "EOF while parsing a value", p)
       ELSE PeekError(s, "key must be a string", p)

\* visit_map over MapAccess, then Deserializer::end_map
ParseMap(s, i, first, acc, depth) ==
    LET p == SkipWhitespace(s, i)
        c == CharAt(s, p)
    IN IF c = "" THEN PeekError(s, "EOF while parsing an object", p)
       ELSE IF c = "}" /\ acc.wide = << >> THEN JOk(JObject(acc.v), p + 1)
       ELSE IF c = "}" THEN JOk(JWideObject(acc.v, acc.wide), p + 1)
       ELSE IF c = "," /\ ~first THEN MapKey(s, SkipWhitespace(s, p + 1), acc, depth)
       ELSE IF first THEN MapKey(s, p, acc, depth)
       ELSE PeekError(s, "expected ',' or '}'", p)

\* SeqAccess::next_element_seed with the element expected at p
SeqElement(s, p, acc, depth) ==
    LET c == CharAt(s, p)
    IN IF c = "]" THEN PeekError(s, "trailing comma", p)
       ELSE IF c = "" THEN PeekError(s, "EOF while parsing a value", p)
       ELSE SeqPush(s, ParseValue(s, p, depth), acc, depth)

\* visit_seq over SeqAccess, then Deserializer::end_seq
ParseSeq(s, i, first, acc, depth) ==
    LET p == SkipWhitespace(s, i)
        c == CharAt(s, p)
    IN IF c = "" THEN PeekError(s, "EOF while parsing a list", p)
       ELSE IF c = "]" THEN JOk(JArray(acc), p + 1)
       ELSE IF c = "," /\ ~first THEN SeqElement(s, SkipWhitespace(s, p + 1), acc, depth)
       ELSE IF first THEN SeqPush(s, ParseValue(s, p, depth), acc, depth)
       ELSE PeekError(s, "expected ',' or ']'", p)

\* a string value
StringValue(r) ==
    IF ~r.ok THEN r
    ELSE IF r.val.wide = << >> THEN JOk(JString(r.val.text), r.pos)
    ELSE JOk(JWideString(r.val.text, r.val.wide), r.pos)

\* Deserializer::deserialize_any with the Value visitor; depth is
\* remaining_depth
ParseValue(s, i, depth) ==
    LET p == SkipWhitespace(s, i)
        c == CharAt(s, p)
    IN IF c = "" THEN PeekError(s, "EOF while parsing a value", p)
       ELSE IF c = "n" THEN ParseIdent(s, p + 1, "ull", JNull)
       ELSE IF c = "t" THEN ParseIdent(s, p + 1, "rue", JBool(TRUE))
       ELSE IF c = "f" THEN ParseIdent(s, p + 1, "alse", JBool(FALSE))
       ELSE IF c = "-" \/ IsDigit(c)
       THEN ParseNumber(s, IF c = "-" THEN p + 1 ELSE p, c # "-")
       ELSE IF c = "\"" THEN StringValue(ParseStr(s, p + 1, EmptyText))
       ELSE IF c \in {"[", "{"} /\ depth = 1 THEN PeekError(s, "recursion limit exceeded", p)
       ELSE IF c = "[" THEN ParseSeq(s, p + 1, TRUE, << >>, depth - 1)
       ELSE IF c = "{" THEN ParseMap(s, p + 1, TRUE, EmptyMap, depth - 1)
       ELSE PeekError(s, "expected value", p)

\* Deserializer::end: white space alone may follow the value
JsonEnd(s, r) ==
    IF ~r.ok THEN r
    ELSE IF SkipWhitespace(s, r.pos) <= Len(s)
    THEN PeekError(s, "trailing characters", SkipWhitespace(s, r.pos))
    ELSE Ok(r.val)

serde_json_from_str(s) == JsonEnd(s, ParseValue(s, 1, RecursionLimit))

JsonTracks ==
    "{\"captions\":{\"playerCaptionsTracklistRenderer\":{\"captionTracks\":[{\"baseUrl\":\"u\"}]}}}"
JsonEmptyTracks ==
    "{\"captions\":{\"playerCaptionsTracklistRenderer\":{\"captionTracks\":[]}}}"
JsonNoBaseUrl ==
    "{\"captions\":{\"playerCaptionsTracklistRenderer\":{\"captionTracks\":[{\"kind\":\"asr\"}]}}}"
JsonNoCaptions == "{\"a\":1}"

\* Value::get on an Option<&Value> (the and_then chain), key a string of
\* the model
Get(o, key) ==
    IF o.some /\ o.val.t = "object" /\ key \in DOMAIN o.val.v
    THEN Some(o.val.v[key]) ELSE None

\* lines 68-76: captions -> playerCaptionsTracklistRenderer -> captionTracks
\* (as_array) -> first() -> baseUrl (as_str)
LocateBaseUrl(value) ==
    LET tracks == Get(Get(Get(Some(value), "captions"),
                          "playerCaptionsTracklistRenderer"), "captionTracks")
    IN IF tracks.some /\ tracks.val.t = "array" /\ tracks.val.v # << >>
       THEN LET u == Get(Some(tracks.val.v[1]), "baseUrl")
            IN IF ~u.some \/ u.val.t # "string" THEN None
               ELSE IF "wide" \in DOMAIN u.val
               THEN [some |-> TRUE, val |-> u.val.v, wide |-> u.val.wide]
               ELSE Some(u.val.v)
       ELSE None

(***************************************************************************)
(* The timed-text parser of get_transcript (lines 82-102)                  *)
(***************************************************************************)
text_open == "<text start=\""
dur_attr == "\" dur=\""
text_close == "</text>"

\* the length of the greedy run [^stop]* that begins at position i
Run(s, i, stop) ==
    LET at == {j \in i..Len(s) : CharAt(s, j) = stop}
    IN IF at = {} THEN Len(s) - i + 1 ELSE Min(at) - i

\* the regex <text start="([^"]+)" dur="([^"]+)"[^>]*>([^<]+)</text> tried
\* at position i.  Every class excludes the character that must follow it,
\* so a run ends at the first such character and the match is unique.
MatchText(xml, cap1, cap2, d, n4) ==
    IF n4 >= 1 /\ StartsWithAt(xml, text_close, d + n4)
    THEN Some([cap1 |-> cap1, cap2 |-> cap2,
               cap3 |-> SubSeq(xml, d, d + n4 - 1),
               end  |-> d + n4 + Len(text_close)])
    ELSE None

\* [^>]*>([^<]+)</text> with the run [^>]* of length n3 at c
MatchTagEnd(xml, cap1, cap2, c, n3) ==
    IF StartsWithAt(xml, ">", c + n3)
    THEN MatchText(xml, cap1, cap2, c + n3 + 1, Run(xml, c + n3 + 1, "<"))
    ELSE None

\* ([^"]+)"[^>]*>... with the run [^"]+ of length n2 at b
MatchDur(xml, cap1, b, n2) ==
    IF n2 >= 1 /\ StartsWithAt(xml, "\"", b + n2)
    THEN MatchTagEnd(xml, cap1, SubSeq(xml, b, b + n2 - 1),
                     b + n2 + 1, Run(xml, b + n2 + 1, ">"))
    ELSE None

\* ([^"]+)" dur="... with the run [^"]+ of length n1 at a
MatchStart(xml, a, n1) ==
    IF n1 >= 1 /\ StartsWithAt(xml, dur_attr, a + n1)
    THEN MatchDur(xml, SubSeq(xml, a, a + n1 - 1),
                  a + n1 + Len(dur_attr), Run(xml, a + n1 + Len(dur_attr), "\""))
    ELSE None

MatchAt(xml, i) ==
    IF StartsWithAt(xml, text_open, i)
    THEN MatchStart(xml, i + Len(text_open), Run(xml, i + Len(text_open), "\""))
    ELSE None

\* Regex::captures_iter from position i on: the leftmost matches, none
\* overlapping
RECURSIVE CapturesIter(_, _)

\* the match m and the matches behind it
CapturesFrom(xml, m) == <<m>> \o CapturesIter(xml, m.end)

\* the leftmost match at one of the positions at
FirstCapture(xml, at) ==
    IF at = {} THEN << >> ELSE CapturesFrom(xml, MatchAt(xml, Min(at)).val)

CapturesIter(xml, i) ==
    FirstCapture(xml, {k \in i..Len(xml) : MatchAt(xml, k).some})

\* html_escape::decode_html_entities: the named entities of HTML that stand
\* for characters a string can hold, and the numeric ones
Entities ==
    << <<"amp", "&">>, <<"AMP", "&">>, <<"lt", "<">>, <<"LT", "<">>,
       <<"gt", ">">>, <<"GT", ">">>, <<"quot", "\"">>, <<"QUOT", "\"">>,
       <<"apos", "'">>, <<"Tab", "\t">>, <<"NewLine", "\n">>,
       <<"excl", "!">>, <<"num", "#">>, <<"dollar", "$">>, <<"percnt", "%">>,
       <<"lpar", "(">>, <<"rpar", ")">>, <<"ast", "*">>, <<"midast", "*">>,
       <<"plus", "+">>, <<"comma", ",">>, <<"period", ".">>, <<"sol", "/">>,
       <<"colon", ":">>, <<"semi", ";">>, <<"equals", "=">>, <<"quest", "?">>,
       <<"commat", "@">>, <<"lsqb", "[">>, <<"lbrack", "[">>, <<"bsol", "\\">>,
       <<"rsqb", "]">>, <<"rbrack", "]">>, <<"Hat", "^">>, <<"lowbar", "_">>,
       <<"UnderBar", "_">>, <<"lcub", "{">>, <<"lbrace", "{">>,
       <<"verbar", "|">>, <<"vert", "|">>, <<"VerticalLine", "|">>,
       <<"rcub", "}">>, <<"rbrace", "}">>, <<"fjlig", "fj">> >>

\* the character of the entity &name; "" when name is no entity of the
\* table and no number, or a character a string cannot hold
EntityChar(name) ==
    IF \E k \in 1..Len(Entities) : Entities[k][1] = name
    THEN Entities[CHOOSE k \in 1..Len(Entities) : Entities[k][1] = name][2]
    ELSE IF /\ CharAt(name, 1) = "#" /\ Len(name) >= 2
            /\ DigitRun(name, 2) = Len(name) - 1
            /\ Len(NoLeadingZeros(Drop(name, 1))) <= 3
    THEN CharOf(StrToNat(Drop(name, 1)), "")
    ELSE IF /\ CharAt(name, 1) = "#" /\ CharAt(name, 2) \in {"x", "X"}
            /\ Len(name) >= 3
            /\ \A k \in 3..Len(name) : IsHex(CharAt(name, k))
            /\ Len(NoLeadingZeros(Drop(name, 2))) <= 4
    THEN CharOf(HexEscape(PadLeft(NoLeadingZeros(Drop(name, 2)), 4)), "")
    ELSE ""

\* the text up to the next "&" is taken as it is; an "&" that begins no
\* entity stays
RECURSIVE decode_html_entities(_)
decode_html_entities(s) ==
    LET amp  == Find(s, "&")
        semi == Find(Drop(s, amp), ";")
        c    == EntityChar(SubSeq(s, amp + 1, amp + semi - 1))
    IN IF amp = 0 THEN s
       ELSE IF semi = 0 \/ c = ""
       THEN Take(s, amp) \o decode_html_entities(Drop(s, amp))
       ELSE Take(s, amp - 1) \o c \o decode_html_entities(Drop(s, amp + semi))

NoLinesMsg == "No transcript lines found in the response"

\* the for loop of lines 85-95: one TranscriptItem per capture; the first
\* attribute that is no f64 ends get_transcript with its parse error
RECURSIVE PushItems(_, _)

\* lines 86-94 for one capture: the two parses, then the push
PushItem(caps, items, start, duration) ==
    IF ~start.ok THEN start
    ELSE IF ~duration.ok THEN duration
    ELSE PushItems(Tail(caps),
             Append(items,
                    TranscriptItem(decode_html_entities(Head(caps).cap3),
                                   start.val, duration.val)))

PushItems(caps, items) ==
    IF caps = << >> THEN Ok(items)
    ELSE PushItem(caps, items,
                  ParseF64(Head(caps).cap1), ParseF64(Head(caps).cap2))

ItemsOf(caps) == PushItems(caps, << >>)

\* lines 97-102
NonEmpty(items) ==
    IF items.ok /\ items.val = << >> THEN Err(NoLinesMsg) ELSE items

\* lines 82-102
ParseTranscript(xml) == NonEmpty(ItemsOf(CapturesIter(xml, 1)))

(***************************************************************************)
(* Bounds and inputs                                                       *)
(***************************************************************************)
MaxLines == 3      \* lines of an existing transcript file
MaxItems == 2      \* items of a transcript handed to save_transcript
MaxLoopLines == 2  \* lines of the content whose bucketing loop is stepped
MaxWraps == 2      \* wrap-arounds of the counter that are followed

SeqsUpTo(S, n) == UNION {[1..k -> S] : k \in 0..n}
NonEmptySeqsUpTo(S, n) == UNION {[1..k -> S] : k \in 1..n}

\* a file of the given lines, each ended by a line break
ContentOf(ls) == IF ls = << >> THEN "" ELSE Join(ls, "\n") \o "\n"

ExistingFile == "transcript_RcYjXbSJBN8.txt"
NormalizedFile == "transcript_RcYjXbSJBN8_normalized.txt"
OutputFile(id) == "transcript_" \o id \o ".txt"

VideoIds == {"RcYjXbSJBN8", "dQw4w9WgXcQ"}
FileNames == {ExistingFile, NormalizedFile} \cup {OutputFile(id) : id \in VideoIds}
EmptyFs == [f \in FileNames |-> None]

\* lines of an existing transcript file
LineSet ==
    {"[0:01] a", "[0:07] b", "[0:01] c", "[0:02]", "[1:05] d e", "[0:5.99] f",
     "[0:5.91] g", "junk"}

\* files whose timestamps are rounded: 0.09 * 60.0 + 0.6 is 5.999999999999999,
\* in the bucket before the one of 6, and 4.1 * 60.0 is 245.99999999999997
RoundedFiles ==
    {<<"[0.09:0.6] q", "[0:06] b">>, <<"[0:06] b", "[0.09:0.6] q">>,
     <<"[4.1:0] a", "[0.09:0.6] q", "[0:06] b">>}

\* transcript items: texts with a blank, a line break, white space alone
ItemSet ==
    {TranscriptItem(t, ParseF64(st).val, ParseF64("1").val) :
        t \in {"a", "b c", "x\ny", " "}, st \in {"0.25", "0.7", "7"}}

\* lines whose timestamps reach the end of the i32 range and pass it:
\* 35791394:00 is 2147483640 s, :06 is 2147483646 s, :07 is 2147483647 s,
\* 1e10 s saturates in the cast to i32
LoopLineSet ==
    {"[0:01] a", "[0:13] b", "[0:02]", "junk", "[nan:0] n",
     "[35791394:00] x", "[35791394:06] y", "[35791394:07] z", "[0:1e10] w"}

Statuses == {200, 404}
IsSuccess(status) == status \in 200..299

Pages ==
    {"<script>var ytInitialPlayerResponse = " \o JsonTracks
         \o ";</script><script>x;</script>",
     "<html><script>var x = 1;</script></html>",
     "var ytInitialPlayerResponse = " \o JsonNoCaptions,
     "<script>a;</script><script>ytInitialPlayerResponse = " \o JsonEmptyTracks
         \o ";</script>",
     ";</script>ytInitialPlayerResponse = " \o JsonTracks,
     "ytInitialPlayerResponse = ytInitialPlayerResponse = " \o JsonTracks
         \o ";</script>",
     "ytInitialPlayerResponse = " \o JsonNoBaseUrl \o ";</script>",
     "prefix ytInitialPlayerResponse = {\"a\":1};</script>suffix"}

Feeds ==
    {"<transcript><text start=\"0.5\" dur=\"1\">hi</text><text start=\"3.2\" dur=\"1\">there</text></transcript>",
     "<text start=\"0.7\" dur=\"1\">a</text><text start=\"0.2\" dur=\"1\">b</text>",
     "<text start=\"0\" dur=\"1\">a\nb</text>",
     "<text dur=\"1\" start=\"0\">hi</text>",
     "<text start=\"0\" dur=\"1\">a</text><text dur=\"2\" start=\"7\">b</text>",
     "<text start=\"7\" dur=\"1\" x=\"y\">c &amp; d</text><text start=\"0\" dur=\"1\">e</text>",
     "<text x=\"y\" start=\"0\" dur=\"1\">hi</text>",
     "<text start=\"x\" dur=\"1\">hi</text>",
     "<text start=\"1\" dur=\"1\"> </text><text start=\"2\" dur=\"1\"> </text>",
     "<transcript></transcript>"}

\* reqwest::Error of Client::build, of send (no response arrived) and of
\* text (the body could not be read)
BuildFailedMsg == "builder error"
SendFailedMsg == "error sending request"
BodyFailedMsg == "error decoding response body"
FetchFailures == {BuildFailedMsg, SendFailedMsg, BodyFailedMsg}
NotFoundMsg == "Cannot find player data"
NoCaptionsMsg == "No captions found for this video"

(***************************************************************************)
(* Initial states                                                          *)
(***************************************************************************)
PipelineIdle ==
    /\ written = {}
    /\ page_status = 0 /\ html = ""
    /\ json_str = None /\ parsed = Err("") /\ base_url = None
    /\ feed_status = 0 /\ transcript_xml = ""
    /\ error = ""

LoopIdle ==
    /\ build = "debug" /\ lpc = "idle" /\ entries = << >>
    /\ current_timestamp = 0 /\ normalized = "" /\ wraps = 0

\* main starts; the working directory may hold an earlier transcript
Init ==
    /\ pc = "main"
    /\ fs \in {EmptyFs,
               [EmptyFs EXCEPT ![ExistingFile] = Some("[0:07] b\n[0:00] a\n")]}
    /\ video_id = "" /\ transcript = << >>
    /\ PipelineIdle /\ LoopIdle

\* normalize_timestamps and save_transcript on their own: main at line 187
\* with any existing file, or at line 209 with any transcript
NormInit ==
    /\ \/ /\ pc = "main"
          /\ \E ls \in SeqsUpTo(LineSet, MaxLines) \cup RoundedFiles :
                 fs = [EmptyFs EXCEPT ![ExistingFile] = Some(ContentOf(ls))]
          /\ video_id = "" /\ transcript = << >>
       \/ /\ pc = "save"
          /\ fs = EmptyFs
          /\ video_id \in VideoIds
          /\ transcript \in NonEmptySeqsUpTo(ItemSet, MaxItems)
    /\ PipelineIdle /\ LoopIdle

(***************************************************************************)
(* main and get_transcript, step by step                                   *)
(***************************************************************************)
\* main, lines 187-194: an existing transcript_RcYjXbSJBN8.txt is normalized
\* into transcript_RcYjXbSJBN8_normalized.txt
NormalizeExisting ==
    /\ pc = "main"
    /\ IF fs[ExistingFile].some
       THEN \E n \in {normalize_timestamps(fs[ExistingFile].val)} :
                /\ n.some
                /\ fs' = [fs EXCEPT ![NormalizedFile] = Some(n.val)]
                /\ written' = written \cup {NormalizedFile}
       ELSE UNCHANGED <<fs, written>>
    /\ pc' = "config"
    /\ UNCHANGED <<video_id, page_status, html, json_str, parsed, base_url,
                   feed_status, transcript_xml, transcript, error, loopVars>>

\* main, lines 197-202: config.json is read
ReadConfig ==
    /\ pc = "config"
    /\ \E id \in VideoIds : video_id' = id
    /\ pc' = "build_client"
    /\ UNCHANGED <<fs, written, page_status, html, json_str, parsed, base_url,
                   feed_status, transcript_xml, transcript, error, loopVars>>

\* main, lines 197-200: config.json is missing (expect panics) or is no
\* Config (the ? returns the error)
ConfigFails ==
    /\ pc = "config"
    /\ pc' = "aborted"
    /\ UNCHANGED <<fs, written, video_id, page_status, html, json_str, parsed,
                   base_url, feed_status, transcript_xml, transcript, error,
                   loopVars>>

\* get_transcript, lines 49-51: the client is built, or build()? returns
\* the error
BuildClient ==
    /\ pc = "build_client"
    /\ \/ pc' = "send_page" /\ UNCHANGED error
       \/ pc' = "reported" /\ error' = BuildFailedMsg
    /\ UNCHANGED <<fs, written, video_id, page_status, html, json_str, parsed,
                   base_url, feed_status, transcript_xml, transcript, loopVars>>

\* get_transcript, lines 56-59: the page request; send() fails on a transport
\* error only, a response of any status is taken
SendPage ==
    /\ pc = "send_page"
    /\ \/ /\ \E st \in Statuses : page_status' = st
          /\ pc' = "read_page"
          /\ UNCHANGED error
       \/ /\ error' = SendFailedMsg
          /\ pc' = "reported"
          /\ UNCHANGED page_status
    /\ UNCHANGED <<fs, written, video_id, html, json_str, parsed, base_url,
                   feed_status, transcript_xml, transcript, loopVars>>

\* get_transcript, line 61: the body of the response is read, whatever its
\* status
ReadPage ==
    /\ pc = "read_page"
    /\ \/ /\ \E body \in Pages : html' = body
          /\ pc' = "extract"
          /\ UNCHANGED error
       \/ /\ error' = BodyFailedMsg
          /\ pc' = "reported"
          /\ UNCHANGED html
    /\ UNCHANGED <<fs, written, video_id, page_status, json_str, parsed, base_url,
                   feed_status, transcript_xml, transcript, loopVars>>

\* get_transcript, line 64
ExtractPlayerData ==
    /\ pc = "extract"
    /\ json_str' = extract_json(html)
    /\ IF json_str'.some
       THEN pc' = "parse_json" /\ UNCHANGED error
       ELSE pc' = "reported" /\ error' = NotFoundMsg
    /\ UNCHANGED <<fs, written, video_id, page_status, html, parsed, base_url,
                   feed_status, transcript_xml, transcript, loopVars>>

\* get_transcript, line 66
ParseJson ==
    /\ pc = "parse_json"
    /\ parsed' = serde_json_from_str(json_str.val)
    /\ IF parsed'.ok
       THEN pc' = "locate" /\ UNCHANGED error
       ELSE pc' = "reported" /\ error' = parsed'.err
    /\ UNCHANGED <<fs, written, video_id, page_status, html, json_str, base_url,
                   feed_status, transcript_xml, transcript, loopVars>>

\* get_transcript, lines 68-76 and 107
LocateCaptionTrack ==
    /\ pc = "locate"
    /\ base_url' = LocateBaseUrl(parsed.val)
    /\ IF base_url'.some
       THEN pc' = "send_feed" /\ UNCHANGED error
       ELSE pc' = "reported" /\ error' = NoCaptionsMsg
    /\ UNCHANGED <<fs, written, video_id, page_status, html, json_str, parsed,
                   feed_status, transcript_xml, transcript, loopVars>>

\* get_transcript, line 78: the caption-feed request, as the page request
SendFeed ==
    /\ pc = "send_feed"
    /\ \/ /\ \E st \in Statuses : feed_status' = st
          /\ pc' = "read_feed"
          /\ UNCHANGED error
       \/ /\ error' = SendFailedMsg
          /\ pc' = "reported"
          /\ UNCHANGED feed_status
    /\ UNCHANGED <<fs, written, video_id, page_status, html, json_str, parsed,
                   base_url, transcript_xml, transcript, loopVars>>

\* get_transcript, line 79: the body of the caption-feed response
ReadFeed ==
    /\ pc = "read_feed"
    /\ \/ /\ \E body \in Feeds : transcript_xml' = body
          /\ pc' = "parse_feed"
          /\ UNCHANGED error
       \/ /\ error' = BodyFailedMsg
          /\ pc' = "reported"
          /\ UNCHANGED transcript_xml
    /\ UNCHANGED <<fs, written, video_id, page_status, html, json_str, parsed,
                   base_url, feed_status, transcript, loopVars>>

\* get_transcript, lines 82-102
ParseFeed ==
    /\ pc = "parse_feed"
    /\ \E r \in {ParseTranscript(transcript_xml)} :
           IF r.ok
           THEN transcript' = r.val /\ pc' = "save" /\ UNCHANGED error
           ELSE error' = r.err /\ pc' = "reported" /\ UNCHANGED transcript
    /\ UNCHANGED <<fs, written, video_id, page_status, html, json_str, parsed,
                   base_url, feed_status, transcript_xml, loopVars>>

\* main, lines 205-210, with save_transcript (lines 110-123)
SaveTranscript ==
    /\ pc = "save"
    /\ \E n \in {normalize_timestamps(SaveContent(transcript))} :
           /\ n.some
           /\ fs' = [fs EXCEPT ![OutputFile(video_id)] = Some(n.val)]
    /\ written' = written \cup {OutputFile(video_id)}
    /\ pc' = "done"
    /\ UNCHANGED <<video_id, page_status, html, json_str, parsed, base_url,
                   feed_status, transcript_xml, transcript, error, loopVars>>

Next ==
    \/ NormalizeExisting
    \/ ReadConfig
    \/ ConfigFails
    \/ BuildClient
    \/ SendPage
    \/ ReadPage
    \/ ExtractPlayerData
    \/ ParseJson
    \/ LocateCaptionTrack
    \/ SendFeed
    \/ ReadFeed
    \/ ParseFeed
    \/ SaveTranscript

Spec == Init /\ [][Next]_vars

NormNext ==
    \/ NormalizeExisting
    \/ SaveTranscript

NormSpec == NormInit /\ [][NormNext]_vars

(***************************************************************************)
(* normalize_timestamps step by step: the bucketing loop with its i32      *)
(* counter at full width.  An iteration whose bucket text is empty changes *)
(* nothing but the counter, so a run of such iterations is taken as one    *)
(* step (SkipEmptyBuckets); every other iteration is a step of its own.    *)
(***************************************************************************)
LoopInit ==
    /\ pc = "main"
    /\ \E ls \in SeqsUpTo(LoopLineSet, MaxLoopLines) :
           fs = [EmptyFs EXCEPT ![ExistingFile] = Some(ContentOf(ls))]
    /\ video_id = "" /\ transcript = << >>
    /\ PipelineIdle
    /\ build \in {"debug", "release"}
    /\ lpc = "entry" /\ entries = << >>
    /\ current_timestamp = 0 /\ normalized = "" /\ wraps = 0

\* lines 145-156: the entries are collected and sorted
EnterNormalize ==
    /\ lpc = "entry"
    /\ \E es \in {ParseEntries(fs[ExistingFile].val)} :
           IF SortPanics(es)
           THEN entries' = es /\ lpc' = "panicked"
           ELSE entries' = SortEntries(es) /\ lpc' = "loop"
    /\ current_timestamp' = 0
    /\ normalized' = ""
    /\ UNCHANGED <<pipelineVars, build, wraps>>

\* line 159: the loop condition
LoopRuns == lpc = "loop" /\ current_timestamp <= LastAsI32(entries)

\* line 161: current_timestamp + interval leaves the i32 range
Overflows == OverflowsAt(current_timestamp)

\* lines 159-177, an iteration that pushes a line
EmitBucket ==
    /\ LoopRuns /\ ~Overflows
    /\ LET text == BucketText(entries, current_timestamp,
                              current_timestamp + interval)
       IN /\ text # ""
          /\ normalized' = normalized \o FormatBucketLine(current_timestamp, text)
    /\ current_timestamp' = current_timestamp + interval
    /\ UNCHANGED <<pipelineVars, build, lpc, entries, wraps>>

\* lines 159-177, the iterations up to the next one that does anything else
SkipEmptyBuckets ==
    /\ LoopRuns /\ ~Overflows
    /\ BucketText(entries, current_timestamp, current_timestamp + interval) = ""
    /\ current_timestamp' = NextStop(entries, current_timestamp)
    /\ UNCHANGED <<pipelineVars, build, lpc, entries, normalized, wraps>>

\* line 161 in a debug build: "attempt to add with overflow"
OverflowPanics ==
    /\ LoopRuns /\ Overflows
    /\ build = "debug"
    /\ lpc' = "panicked"
    /\ UNCHANGED <<pipelineVars, build, entries, current_timestamp, normalized,
                   wraps>>

\* lines 159-177 in a release build: both additions wrap around
OverflowWraps ==
    /\ LoopRuns /\ Overflows
    /\ build = "release"
    /\ wraps < MaxWraps
    /\ LET text == BucketText(entries, current_timestamp,
                              WrapAdd(current_timestamp, interval))
       IN normalized' = IF text # ""
                        THEN normalized \o FormatBucketLine(current_timestamp, text)
                        ELSE normalized
    /\ current_timestamp' = WrapAdd(current_timestamp, interval)
    /\ wraps' = wraps + 1
    /\ UNCHANGED <<pipelineVars, build, lpc, entries>>

\* line 159 false, line 179: the function returns
LoopEnds ==
    /\ lpc = "loop"
    /\ current_timestamp > LastAsI32(entries)
    /\ lpc' = "returned"
    /\ UNCHANGED <<pipelineVars, build, entries, current_timestamp, normalized,
                   wraps>>

LoopNext ==
    \/ EnterNormalize
    \/ EmitBucket
    \/ SkipEmptyBuckets
    \/ OverflowPanics
    \/ OverflowWraps
    \/ LoopEnds

LoopSpec == LoopInit /\ [][LoopNext]_vars

(***************************************************************************)
(* Vocabulary of the properties                                            *)
(***************************************************************************)
\* "[m:ss]", the label normalize_timestamps gives the bucket that starts at b
Label(b) == "[" \o IntToStr(b \div 60) \o ":" \o Pad2(b % 60) \o "]"
LabelOf(line) == Take(line, Find(line, "]"))
TextOf(line) == Drop(line, Find(line, "]") + 1)
LabelsOf(out) == [k \in 1..Len(Lines(out)) |-> LabelOf(Lines(out)[k])]
Contains(s, sub) == Find(s, sub) # 0

\* the largest whole number not above a finite ts
Floor(ts) ==
    IF ~ts.neg THEN StrToNat(ts.ip)
    ELSE IF ts.fp = "" THEN -StrToNat(ts.ip)
    ELSE -StrToNat(ts.ip) - 1

\* the start of the bucket [b, b + interval) that holds ts
BucketOf(ts) == interval * (Floor(ts) \div interval)

\* a normalization has run: save_transcript wrote the output file, or main
\* normalized the existing file
Saved == pc = "done" /\ OutputFile(video_id) \in written
ExistingNormalized == pc = "config" /\ NormalizedFile \in written

\* the entries that went in: the transcript items, or the timestamped lines
\* of the existing file
EntriesIn ==
    IF Saved
    THEN [i \in 1..Len(transcript) |->
             [ts |-> transcript[i].start, text |-> transcript[i].text]]
    ELSE ParseEntries(fs[ExistingFile].val)

\* the lines that came out
LinesOut ==
    Lines(IF Saved THEN fs[OutputFile(video_id)].val ELSE fs[NormalizedFile].val)

LinesLabelled(b) == {k \in 1..Len(LinesOut) : LabelOf(LinesOut[k]) = Label(b)}

Perms(n) == {p \in [1..n -> 1..n] : \A i, j \in 1..n : i # j => p[i] # p[j]}
Permute(ls, p) == [i \in 1..Len(ls) |-> ls[p[i]]]

\* the entries of E at the indices I, in the order p, joined by one space
JoinedIn(E, p) == Join([j \in 1..Len(p) |-> E[p[j]].text], " ")

(***************************************************************************)
(* C1.  Bucket coverage: the text of every entry with start >= 0 appears   *)
(* in exactly one emitted line, the line of the bucket [b, b+6) that holds *)
(* its start; nothing of it is dropped.  (White space around a text is not *)
(* counted as text, and an entry of white space alone has nothing to show.)*)
(***************************************************************************)
C1_BucketCoverage ==
    (Saved \/ ExistingNormalized) =>
        \A i \in 1..Len(EntriesIn) :
            (F64Le(FromI32(0), EntriesIn[i].ts) /\ Trim(EntriesIn[i].text) # "") =>
                Cardinality({k \in LinesLabelled(BucketOf(EntriesIn[i].ts)) :
                    Contains(TextOf(LinesOut[k]), Trim(EntriesIn[i].text))}) = 1

(***************************************************************************)
(* C2.  For every bucket b = 0, 6, 12, ... up to the bucket of the largest *)
(* start, exactly one line is emitted for b if some entry has              *)
(* b <= start < b+6, and none otherwise.                                   *)
(***************************************************************************)
C2_LineIffBucketOccupied ==
    (Saved \/ ExistingNormalized) =>
        LET E    == EntriesIn
            tops == {BucketOf(E[i].ts) : i \in 1..Len(E)} \cup {0}
        IN \A j \in 0..(Max(tops) \div interval) :
               Cardinality(LinesLabelled(interval * j))
                   = IF \E i \in 1..Len(E) : BucketOf(E[i].ts) = interval * j
                     THEN 1 ELSE 0

(***************************************************************************)
(* C3.  Every emitted line carries the texts of the entries of its bucket  *)
(* in ascending order of their start times, separated by one space, also   *)
(* for transcript items whose starts lie within the same second.  Stated   *)
(* for texts without line breaks and surrounding white space, so that only *)
(* the order decides.                                                      *)
(***************************************************************************)
CleanText(t) == t # "" /\ Trim(t) = t /\ ~Contains(t, "\n")

C3_AscendingWithinLine ==
    ((Saved \/ ExistingNormalized)
        /\ \A i \in 1..Len(EntriesIn) : CleanText(EntriesIn[i].text)) =>
        \A k \in 1..Len(LinesOut) :
            LET E  == EntriesIn
                I  == {i \in 1..Len(E) : Label(BucketOf(E[i].ts)) = LabelOf(LinesOut[k])}
                n  == Cardinality(I)
            IN \E p \in [1..n -> I] :
                   /\ \A a, b \in 1..n : a < b =>
                          (p[a] # p[b] /\ F64Le(E[p[a]].ts, E[p[b]].ts))
                   /\ TextOf(LinesOut[k]) = JoinedIn(E, p)

(***************************************************************************)
(* C4.  Determinism under reordering.  As claimed: any two inputs that are *)
(* permutations of the same entries, entries with equal start times        *)
(* included, give the same output lines, texts included.                   *)
(***************************************************************************)
ExistingLines == Lines(fs[ExistingFile].val)

\* two parsed lines are entries of the same start time
SameStart(e1, e2) == e1.some /\ e2.some /\ e1.val.ts = e2.val.ts

\* the lines as process_timestamp_line reads them
ParsedLines(ls) == [i \in 1..Len(ls) |-> process_timestamp_line(ls[i])]

\* the permutation leaves lines of equal start time in their relative order
KeepsTies(E, p) ==
    \A i, j \in 1..Len(E) : (i < j /\ SameStart(E[p[i]], E[p[j]])) => p[i] < p[j]

C4_AnyPermutationSameOutput ==
    ExistingNormalized =>
        \A p \in Perms(Len(ExistingLines)) :
            normalize_timestamps(ContentOf(Permute(ExistingLines, p)))
                = fs[NormalizedFile]

(***************************************************************************)
(* C4, amended.  Any two inputs that are permutations of the same entries  *)
(* and list the entries of equal start time in the same relative order     *)
(* give the same output lines, texts included.                             *)
(***************************************************************************)
C4_TieKeepingPermutationSameOutput ==
    ExistingNormalized =>
        \A E \in {ParsedLines(ExistingLines)} :
            \A p \in Perms(Len(ExistingLines)) :
                KeepsTies(E, p) =>
                    normalize_timestamps(ContentOf(Permute(ExistingLines, p)))
                        = fs[NormalizedFile]

\* a file was normalized that holds two entries of one start time and
\* different texts, and an entry out of order: some reordering of it moves
\* an entry and keeps the tied ones in their order, and there is output to
\* compare
C4_Witness ==
    /\ ExistingNormalized
    /\ fs[NormalizedFile].val # ""
    /\ \E i, j \in 1..Len(EntriesIn) : i < j /\ F64Lt(EntriesIn[j].ts, EntriesIn[i].ts)
    /\ \E E \in {ParsedLines(ExistingLines)} :
           /\ \E i, j \in 1..Len(E) :
                  i < j /\ SameStart(E[i], E[j]) /\ E[i].val.text # E[j].val.text
           /\ \E p \in Perms(Len(E)) :
                  KeepsTies(E, p) /\ Permute(ExistingLines, p) # ExistingLines

(***************************************************************************)
(* C5.  Idempotence: normalize_timestamps applied to its own output gives  *)
(* lines with the same bucket labels in the same order; no line disappears *)
(* and none is added.                                                      *)
(***************************************************************************)
C5_RenormalizeKeepsBuckets ==
    ExistingNormalized =>
        LET again == normalize_timestamps(fs[NormalizedFile].val)
        IN again.some /\ LabelsOf(again.val) = LabelsOf(fs[NormalizedFile].val)

(***************************************************************************)
(* C6.  All-or-nothing persistence: the transcript file of the run is      *)
(* written only after the page fetch, the blob extraction, the JSON parse, *)
(* the caption-track location, the feed fetch and the feed parse have all  *)
(* succeeded, a fetch that ends in a non-success status being a failed     *)
(* fetch (C7).                                                             *)
(***************************************************************************)
C6_WrittenOnlyAfterAllSucceeded ==
    OutputFile(video_id) \in written =>
        /\ IsSuccess(page_status)
        /\ json_str.some
        /\ parsed.ok
        /\ base_url.some
        /\ IsSuccess(feed_status)
        /\ transcript # << >>

(***************************************************************************)
(* C7.  A page or caption-feed response with a non-success status ends     *)
(* get_transcript with a fetch failure; its body reaches neither the       *)
(* extractor nor the timed-text parser.                                    *)
(***************************************************************************)
ExtractorRan == json_str.some \/ error = NotFoundMsg
ParserRan == transcript # << >> \/ error \in {NoLinesMsg, InvalidFloatMsg}
PageRefused == page_status # 0 /\ ~IsSuccess(page_status)
FeedRefused == feed_status # 0 /\ ~IsSuccess(feed_status)

C7_NonSuccessStatusIsFetchFailure ==
    /\ PageRefused => ~ExtractorRan
    /\ FeedRefused => ~ParserRan
    /\ ((PageRefused \/ FeedRefused) /\ pc \in {"reported", "done"}) =>
           (pc = "reported" /\ error \in FetchFailures)

(***************************************************************************)
(* C8.  The parser returns one entry per <text> element that carries       *)
(* numeric start and dur attributes, in feed order, whatever the order of  *)
(* the two attributes and whatever other attributes the element has.       *)
(***************************************************************************)
\* the value of attribute name in the attribute text of a tag
AttrValue(attrs, name) ==
    LET key == " " \o name \o "=\""
        at  == Find(attrs, key)
    IN IF at = 0 THEN None
       ELSE Some(SubSeq(attrs, at + Len(key),
                        at + Len(key) + Run(attrs, at + Len(key), "\"") - 1))

\* the <text ...> elements of a well-formed feed from position i on, each
\* with its start and dur attributes
RECURSIVE TextElements(_, _)
TextElements(xml, i) ==
    LET rel == Find(Drop(xml, i - 1), "<text ")
    IN IF rel = 0 THEN << >>
       ELSE LET open  == i - 1 + rel
                close == open + Run(xml, open, ">")
                attrs == SubSeq(xml, open + 5, close - 1)
            IN <<[start |-> AttrValue(attrs, "start"), dur |-> AttrValue(attrs, "dur")]>>
               \o TextElements(xml, close + 1)

IsNumeric(o) == o.some /\ ParseF64(o.val).ok

NumericTextElements(xml) ==
    SelectSeq(TextElements(xml, 1), LAMBDA e : IsNumeric(e.start) /\ IsNumeric(e.dur))

C8_OneEntryPerTextElement ==
    (pc \in {"save", "done"} \/ (pc = "reported" /\ error = NoLinesMsg)) =>
        LET els == NumericTextElements(transcript_xml)
        IN /\ Len(transcript) = Len(els)
           /\ \A k \in 1..Len(els) :
                  /\ transcript[k].start = ParseF64(els[k].start.val).val
                  /\ transcript[k].duration = ParseF64(els[k].dur.val).val

(***************************************************************************)
(* C9.  extract_json returns None exactly when the start marker is absent; *)
(* otherwise the text from just behind the first start marker up to the    *)
(* first end marker that begins at or behind that point, or to the end of  *)
(* the text when no end marker follows.                                    *)
(***************************************************************************)
C9_ExtractBetweenMarkers ==
    ExtractorRan =>
        LET starts == {i \in 1..Len(html) : StartsWithAt(html, start_marker, i)}
            from   == Min(starts) + Len(start_marker)
            ends   == {j \in from..Len(html) : StartsWithAt(html, end_marker, j)}
            upto   == IF ends = {} THEN Len(html) ELSE Min(ends) - 1
        IN IF starts = {} THEN json_str = None
           ELSE json_str = Some(SubSeq(html, from, upto))

\* a page was searched in which an end marker stands before the start marker
\* and the blob was cut out behind the start marker
C9_Witness ==
    /\ pc = "parse_json"
    /\ json_str.some /\ json_str.val # ""
    /\ Find(html, end_marker) # 0
    /\ Find(html, end_marker) < Find(html, start_marker)

(***************************************************************************)
(* C10.  The bucketing loop terminates: the i32 counter, raised by 6 in    *)
(* every iteration, comes to exceed the largest start and the loop ends,   *)
(* also when the largest start is at the end of the i32 range.  Stated by  *)
(* the loop's measure, which a finite run refutes: every step of the       *)
(* running loop either ends it or leaves it running with a larger counter. *)
(***************************************************************************)
C10_CounterRisesUntilLoopEnds ==
    [][lpc = "loop" =>
          \/ lpc' = "returned"
          \/ lpc' = "loop" /\ current_timestamp' > current_timestamp]_vars

====
